---- MODULE Spec2Model ----
(***************************************************************************)
(* Model of the openhexa pipelines of the BFA NMDR workspace:              *)
(*   - dhis2_extract_microstratification: incremental extract, merge,      *)
(*     enrich and write of DHIS2 data values (monthly_chunks,              *)
(*     merge_data_values, extract, write);                                 *)
(*   - endos_redop_completeness: build_payload, chunkify and post;         *)
(*   - push_climate_data_auto, push_tloh, push_tloh_completeness: the      *)
(*     pushes of data values to the destination DHIS2;                     *)
(*   - the snt pipelines and bulletin_generate, which execute notebooks.   *)
(*                                                                         *)
(* Each part has its own specification over the shared variables; the      *)
(* variables of the other parts stay at their idle values:                 *)
(*   SpecMerge    merge_data_values applied to every old and new;          *)
(*   SpecChunks   monthly_chunks and the two branches of extract over the  *)
(*                same [start, end], against a source of one record a day; *)
(*   SpecExtract  successive runs of microstratification_extract;          *)
(*   SpecPayload  build_payload applied to every ENDOS and REDOP frame;    *)
(*   SpecPost     post, chunk by chunk;                                    *)
(*   SpecPush     runs of the three pipelines that push data values;       *)
(*   SpecSnt      runs of the pipelines that execute notebooks;            *)
(*   SpecEnrich   enrich applied to data with and without metadata;        *)
(*   SpecSync     successive runs of the ENDOS to REDOP sync;               *)
(*   SpecNb       run_notebook called as the clock advances;               *)
(*   SpecCu       the merge of a snapshot file with newly fetched rows.    *)
(*                                                                         *)
(* Datetimes are integers: a number of ticks since 2020-01-01T00:00, with  *)
(* TicksPerDay ticks in a day.  Dates are [y, m, d] records of the         *)
(* proleptic Gregorian calendar.                                           *)
(***************************************************************************)
EXTENDS Integers, Sequences, FiniteSets, TLC

VARIABLES
    \* ---- merge_data_values applied to two dataframes
    old, new, merged, mpc,
    \* ---- monthly_chunks / chunked and single extraction over [start, end]
    cstart, cend, chunks, cdata, sdata, cpc,
    \* ---- runs of the microstratification_extract pipeline
    now,            \* the clock (datetime.now())
    advances,       \* how many times the clock has been advanced
    source,         \* the data values the source DHIS2 holds
    file,           \* dst_file: absent, or the dataframe persisted in it
    xpc,            \* position of the current run
    runs,           \* runs started so far
    start_date, end_date, data_elements,
    last_updated,   \* extract: {} for None, {t} for the high-water mark t
    chunked,        \* extract: whether the chunked branch was taken
    todo,           \* extract: the (start, end) ranges still to fetch
    data,           \* extract: the frames fetched so far
    fetches,        \* the requests this run has sent to the source
    xnew, xdf,      \* extract: new and df
    frame,          \* the dataframe handed from task to task
    fileAtStart,    \* dst_file as the run found it
    \* ---- build_payload of endos_redop_completeness
    endos_data, redop_data, payload, ppc,
    \* ---- post of endos_redop_completeness
    post_payload,   \* the payload post is called with
    sent,           \* the dataValues of the requests posted so far
    summaries,      \* the import summaries the destination answered with
    post_result,    \* what post returned: {} for None
    postpc,
    \* ---- runs of the pipelines that push to the destination DHIS2
    push_pipeline,  \* the pipeline that runs
    dry_run,        \* its parameter dry_run_only (climate) or dry_run (tloh)
    crun,           \* push_climate_data: position of the run
    ctask,          \* push_climate_data: the tasks of every variable
    cerror,         \* push_climate_data: the error the run ended with
    requests,       \* the dataValueSets requests sent to the destination
    tdata,          \* tloh: the files find_data returned
    tdone,          \* tloh: what the loop of push did with each file so far
    tpc,            \* tloh: position of the run
    twarnings,      \* tloh: the files logged as "Could not process file"
    \* ---- runs of the pipelines that execute notebooks
    snt_pipeline,   \* the pipeline that runs
    sparams,        \* its parameters
    senv,           \* the workspace files it finds
    spc,            \* position of the run
    stodo,          \* the tasks still to run, in order
    executed,       \* the notebooks pm.execute_notebook was called on
    dhis2_requests, \* the requests sent to DHIS2
    error_log,      \* the messages of current_run.log_error
    serror,         \* the error the run ended with
    sreturns,       \* what the tasks returned
    snt_config,     \* what load_configuration_SNT returned
    file_outputs,   \* the files given to current_run.add_file_output
    \* ---- enrich applied to a dataframe
    edata,          \* the dataframe enrich is called with
    eorg_units,     \* what get_organisation_units returned: rows of id, name
    edata_elements, \* what get_data_elements returned: rows of id, name
    enriched,       \* what enrich returned
    epc,
    \* ---- successive runs of sync of endos_redop_completeness
    sync_endos,     \* the completeness rows of the districts, the same in every run
    redop_dest,     \* the data values the destination holds
    redop_file,     \* redop.parquet: absent, or the dataframe persisted in it
    sync_clock,     \* the day
    sync_runs,      \* runs started so far
    syncpc,         \* position of the current run
    sync_payload,   \* the payload this run built: {} before build_payload
    sync_sent,      \* the data values this run posted
    sync_prev,      \* the payload of the previous run and whether it was stored
    \* ---- executions of run_notebook
    nb_now,         \* the clock (datetime.utcnow())
    nb_outputs,     \* the executions so far, with their output notebook path
    nbpc,
    \* ---- the merge of a prior file with newly fetched rows
    cu_subset,      \* the key columns
    cu_file,        \* dst_file: absent, or the dataframe persisted in it
    cu_new,         \* the newly fetched rows
    cu_df,          \* the merge
    cupc

mergeVars == <<old, new, merged, mpc>>
chunkVars == <<cstart, cend, chunks, cdata, sdata, cpc>>
extractVars ==
    <<now, advances, source, file, xpc, runs, start_date, end_date, data_elements,
      last_updated, chunked, todo, data, fetches, xnew, xdf, frame, fileAtStart>>
payloadVars == <<endos_data, redop_data, payload, ppc>>
postVars == <<post_payload, sent, summaries, post_result, postpc>>
pushVars ==
    <<push_pipeline, dry_run, crun, ctask, cerror, requests, tdata, tdone, tpc, twarnings>>
sntVars ==
    <<snt_pipeline, sparams, senv, spc, stodo, executed, dhis2_requests, error_log,
      serror, sreturns, snt_config, file_outputs>>
enrichVars == <<edata, eorg_units, edata_elements, enriched, epc>>
syncVars ==
    <<sync_endos, redop_dest, redop_file, sync_clock, sync_runs, syncpc, sync_payload,
      sync_sent, sync_prev>>
nbVars == <<nb_now, nb_outputs, nbpc>>
cuVars == <<cu_subset, cu_file, cu_new, cu_df, cupc>>
vars == <<mergeVars, chunkVars, extractVars, payloadVars, postVars, pushVars, sntVars, enrichVars, syncVars, nbVars, cuVars>>

(***************************************************************************)
(* Bounds of the model.                                                    *)
(***************************************************************************)
TicksPerDay == 2
MaxStartDay == 60
MaxEndDay == 95
MaxOld == 2
MaxNew == 1
MaxRuns == 2
MaxAdvances == 1
MaxEndosRows == 1
MaxRedopRows == 2
MaxPayloadLen == 2500
MaxVariables == 2
MaxOrgUnits == 2
MaxFiles == 3
MaxEnrichRows == 2
MaxSyncRows == 1
MaxSyncRuns == 2
MaxHalfSeconds == 4
MaxExecutions == 2
MaxConcatRows == 2

None == [none |-> TRUE]

Min(a, b) == IF a <= b THEN a ELSE b

\* Sequences over S of length at most n.
SeqUpTo(S, n) == UNION {[1..k -> S] : k \in 0..n}

RECURSIVE Flatten(_)
Flatten(ss) == IF ss = <<>> THEN <<>> ELSE Head(ss) \o Flatten(Tail(ss))

Range(s) == {s[i] : i \in DOMAIN s}

(***************************************************************************)
(* Calendar arithmetic: datetime and dateutil.relativedelta(months=1).     *)
(***************************************************************************)
IsLeap(y) == (y % 4 = 0 /\ y % 100 # 0) \/ y % 400 = 0

YearLen(y) == IF IsLeap(y) THEN 366 ELSE 365

DaysInMonth(y, m) ==
    IF m = 2 THEN (IF IsLeap(y) THEN 29 ELSE 28)
    ELSE IF m \in {4, 6, 9, 11} THEN 30 ELSE 31

RECURSIVE DaysBeforeYear(_)
DaysBeforeYear(y) == IF y <= 2020 THEN 0 ELSE DaysBeforeYear(y - 1) + YearLen(y - 1)

RECURSIVE DaysBeforeMonth(_, _)
DaysBeforeMonth(y, m) ==
    IF m = 1 THEN 0 ELSE DaysBeforeMonth(y, m - 1) + DaysInMonth(y, m - 1)

\* Day number of a date, 2020-01-01 being day 0.
Ord(date) == DaysBeforeYear(date.y) + DaysBeforeMonth(date.y, date.m) + date.d - 1

RECURSIVE MonthFrom(_, _, _)
MonthFrom(y, m, n) ==
    IF n < DaysInMonth(y, m) THEN [y |-> y, m |-> m, d |-> n + 1]
    ELSE MonthFrom(y, m + 1, n - DaysInMonth(y, m))

RECURSIVE YearFrom(_, _)
YearFrom(y, n) == IF n < YearLen(y) THEN MonthFrom(y, 1, n) ELSE YearFrom(y + 1, n - YearLen(y))

\* The date of a day number.
ToDate(n) == YearFrom(2020, n)

\* dt + relativedelta(months=1): the same day of the next month, clamped to
\* the last day of that month; the time of day is kept.
AddOneMonth(dt) ==
    LET date == ToDate(dt \div TicksPerDay)
        y2 == IF date.m = 12 THEN date.y + 1 ELSE date.y
        m2 == IF date.m = 12 THEN 1 ELSE date.m + 1
        d2 == Min(date.d, DaysInMonth(y2, m2))
    IN  (Ord([y |-> y2, m |-> m2, d |-> d2]) * TicksPerDay) + (dt % TicksPerDay)

(***************************************************************************)
(* monthly_chunks(start, end): the list of (chunk_start, chunk_end) pairs  *)
(* the generator yields.                                                   *)
(***************************************************************************)
RECURSIVE ChunkLoopLe(_, _, _)
ChunkLoopLe(chunk_start, chunk_end, end) ==
    IF chunk_end <= end
    THEN <<<<AddOneMonth(chunk_start), AddOneMonth(chunk_end)>>>>
         \o ChunkLoopLe(AddOneMonth(chunk_start), AddOneMonth(chunk_end), end)
    ELSE <<>>

\* monthly_chunks with a fault: the loop runs while chunk_end <= end.
MonthlyChunksLe(start, end) ==
    <<<<start, AddOneMonth(start)>>>> \o ChunkLoopLe(start, AddOneMonth(start), end)

RECURSIVE ChunkLoop(_, _, _)
ChunkLoop(chunk_start, chunk_end, end) ==
    IF chunk_end < end
    THEN <<<<AddOneMonth(chunk_start), AddOneMonth(chunk_end)>>>>
         \o ChunkLoop(AddOneMonth(chunk_start), AddOneMonth(chunk_end), end)
    ELSE <<>>

monthly_chunks(start, end) ==
    <<<<start, AddOneMonth(start)>>>> \o ChunkLoop(start, AddOneMonth(start), end)

(***************************************************************************)
(* The stubbed deterministic source: one record per calendar day (at       *)
(* midnight), identified by its date; a request for [a, b] returns the     *)
(* records whose date lies in the closed range, in date order.             *)
(***************************************************************************)
SourceFetch(a, b) ==
    LET first == (a + TicksPerDay - 1) \div TicksPerDay
        last  == b \div TicksPerDay
        n     == IF last >= first THEN last - first + 1 ELSE 0
    IN  [i \in 1..n |-> (first + i - 1) * TicksPerDay]

\* The chunked branch with a fault: data is overwritten by each chunk's
\* result instead of being appended to.
ChunkedFetchLastOnly(cs) == SourceFetch(cs[Len(cs)][1], cs[Len(cs)][2])

\* extract, chunked branch: data.append(fetch) per chunk, then pl.concat(data).
ChunkedFetch(cs) == Flatten([i \in DOMAIN cs |-> SourceFetch(cs[i][1], cs[i][2])])

(***************************************************************************)
(* merge_data_values: dataframes are sequences of records.                 *)
(***************************************************************************)
NaturalKey(r) ==
    <<r.data_element_id, r.period, r.organisation_unit_id,
      r.category_option_combo_id, r.attribute_option_combo_id>>

\* DataFrame.sort: maintain_order is left to its default, so rows that compare
\* equal come out in any order.  le[i][j] says that row i may come before
\* row j; the result is the set of the orders the sort can produce for the
\* rows df[i], i \in idx.
RECURSIVE SortOutcomes(_, _, _)
SortOutcomes(df, idx, le) ==
    IF idx = {} THEN {<<>>}
    ELSE LET first == {i \in idx : \A j \in idx : le[i][j]}
         IN  UNION {{<<df[i]>> \o t : t \in SortOutcomes(df, idx \ {i}, le)} : i \in first}

\* df.sort(by="last_updated", descending=...)
SortByLastUpdated(df, descending) ==
    SortOutcomes(df, DOMAIN df,
        [i \in DOMAIN df |-> [j \in DOMAIN df |->
            IF descending THEN df[i].last_updated >= df[j].last_updated
            ELSE df[i].last_updated <= df[j].last_updated]])

\* DataFrame.unique(subset=<natural key>, keep="first", maintain_order=True).
RECURSIVE UniqueKeepFirst(_, _)
UniqueKeepFirst(df, seen) ==
    IF df = <<>> THEN <<>>
    ELSE IF NaturalKey(Head(df)) \in seen THEN UniqueKeepFirst(Tail(df), seen)
    ELSE <<Head(df)>> \o UniqueKeepFirst(Tail(df), seen \cup {NaturalKey(Head(df))})

\* merge_data_values with a fault: the sort is ascending.
merge_data_values_ascending(o, n) ==
    {UniqueKeepFirst(s, {}) : s \in SortByLastUpdated(o \o n, FALSE)}

\* merge_data_values(old, new): the dataframes it can return.
merge_data_values(o, n) ==
    {UniqueKeepFirst(s, {}) : s \in SortByLastUpdated(o \o n, TRUE)}

\* The data values the merge is applied to.
MergeRecords ==
    {[data_element_id |-> "de1", period |-> 202001, organisation_unit_id |-> "ou1",
      category_option_combo_id |-> coc, attribute_option_combo_id |-> "aoc1",
      last_updated |-> lu, value |-> v]
        : coc \in {"coc1", "coc2"}, lu \in {1, 2}, v \in {5, 7}}

MergeIdle == old = <<>> /\ new = <<>> /\ merged = <<>> /\ mpc = "off"

MergeInit ==
    /\ old \in SeqUpTo(MergeRecords, MaxOld)
    /\ new \in SeqUpTo(MergeRecords, MaxNew)
    /\ merged = <<>>
    /\ mpc = "ready"

Merge ==
    /\ mpc = "ready"
    /\ \E m \in merge_data_values(old, new) : merged' = m
    /\ mpc' = "done"
    /\ UNCHANGED <<old, new>>

(***************************************************************************)
(* Chunked and single extraction over the same [start, end].               *)
(***************************************************************************)
ChunkIdle ==
    /\ cstart = 0 /\ cend = 0 /\ chunks = <<>> /\ cdata = <<>> /\ sdata = <<>>
    /\ cpc = {"off"}

ChunkInit ==
    /\ cstart \in 0..(MaxStartDay * TicksPerDay + TicksPerDay - 1)
    /\ cend \in 0..(MaxEndDay * TicksPerDay + TicksPerDay - 1)
    /\ chunks = <<>> /\ cdata = <<>> /\ sdata = <<>>
    /\ cpc = {}

\* extract, lines 201-219: one fetch per monthly chunk, concatenated.
ExtractChunked ==
    /\ cpc \subseteq {"single"}
    /\ chunks' = monthly_chunks(cstart, cend)
    /\ cdata' = ChunkedFetch(monthly_chunks(cstart, cend))
    /\ cpc' = cpc \cup {"chunked"}
    /\ UNCHANGED <<cstart, cend, sdata>>

\* extract, lines 224-232: one fetch of the whole range.
ExtractSingle ==
    /\ cpc \subseteq {"chunked"}
    /\ sdata' = SourceFetch(cstart, cend)
    /\ cpc' = cpc \cup {"single"}
    /\ UNCHANGED <<cstart, cend, chunks, cdata>>

(***************************************************************************)
(* The microstratification_extract pipeline.                               *)
(*                                                                         *)
(* A dataframe is [columns, rows]: the set of its column names and the     *)
(* sequence of its rows, each a record over those columns.                 *)
(***************************************************************************)
RawColumns ==
    {"data_element_id", "period", "organisation_unit_id", "category_option_combo_id",
     "attribute_option_combo_id", "value", "last_updated"}

EnrichedColumns == RawColumns \cup {"organisation_unit_name", "data_element_name"}

NoFile == [exists |-> FALSE, columns |-> {}, rows |-> <<>>]

FileOf(columns, rows) == [exists |-> TRUE, columns |-> columns, rows |-> rows]

\* DATA_ELEMENTS (lines 15-93) and ORG_UNITS (lines 96-110), abridged.
DATA_ELEMENTS == <<"de1", "deX">>
ORG_UNITS == <<"ou1">>

\* The metadata of the source instance: get_data_elements, get_organisation_units.
DataElementsMeta == [id \in {"de1"} |-> "Data element 1"]
OrgUnitsMeta == [id \in {"ou1"} |-> "Org unit 1"]

\* The periods of the data values of the source, as the datetime of their day:
\* 2020-01-15 and 2020-02-01.
PeriodDays == {14, 31}

DataValue(periodDay, lu, v) ==
    [data_element_id |-> "de1", period |-> periodDay * TicksPerDay,
     organisation_unit_id |-> "ou1", category_option_combo_id |-> "coc1",
     attribute_option_combo_id |-> "aoc1", value |-> v, last_updated |-> lu]

\* What the source holds before the first run: the value of 2020-01-15, last
\* updated on 2020-01-31, and the value of 2020-02-01, last updated on
\* 2020-02-06.
InitialRows == <<DataValue(14, 30 * TicksPerDay, 5), DataValue(31, 36 * TicksPerDay, 5)>>

\* The rows of a set of data values with distinct periods, by period.
RECURSIVE RowsByPeriod(_)
RowsByPeriod(S) ==
    IF S = {} THEN <<>>
    ELSE LET r == CHOOSE x \in S : \A y \in S : x.period <= y.period
         IN  <<r>> \o RowsByPeriod(S \ {r})

\* extract_data_elements(dhis2, data_elements, start_date, end_date, org_units,
\* include_children=True, last_updated): the data values of the requested
\* data elements whose period lies in [start_date, end_date] and, with a
\* last_updated, that were updated since.
extract_data_elements(src, des, start, end, lu) ==
    RowsByPeriod({r \in src :
        /\ r.data_element_id \in Range(des)
        /\ start <= r.period /\ r.period <= end
        /\ \A t \in lu : r.last_updated >= t})

\* filter_data_elements: logs the ids missing from the metadata, and appends
\* every id.
filter_data_elements(des, meta) == des

\* get_last_updated(fp): None without a file, else the maximum of its
\* last_updated column; that maximum is None for a file without rows, and
\* None.strftime raises.
GetLastUpdatedRaises(f) == f.exists /\ f.rows = <<>>

get_last_updated(f) ==
    IF ~f.exists THEN {}
    ELSE {CHOOSE t \in {r.last_updated : r \in Range(f.rows)} :
            \A r \in Range(f.rows) : r.last_updated <= t}

\* (datetime.now() - last_updated).days if last_updated else 9999
DaysSinceLastUpdate(clock, lu) ==
    IF lu = {} THEN 9999 ELSE (clock - (CHOOSE t \in lu : TRUE)) \div TicksPerDay

\* The chunking test with a fault: days_since_last_update > 180.
UseMonthlyChunksGt(clock, lu) == lu = {} \/ DaysSinceLastUpdate(clock, lu) > 180

\* last_updated is None or days_since_last_update >= 180
UseMonthlyChunks(clock, lu) == lu = {} \/ DaysSinceLastUpdate(clock, lu) >= 180

\* new.sort(by=["period", "data_element_id", "organisation_unit_id"]): the rows
\* of the model differ in these columns by their period alone.
SortByPeriod(df) ==
    SortOutcomes(df, DOMAIN df,
        [i \in DOMAIN df |-> [j \in DOMAIN df |-> df[i].period <= df[j].period]])

Lookup(meta, id) == IF id \in DOMAIN meta THEN meta[id] ELSE "null"

\* enrich: left joins on the org-unit and data-element metadata.
EnrichRow(r) ==
    [c \in EnrichedColumns |->
        IF c = "organisation_unit_name" THEN Lookup(OrgUnitsMeta, r.organisation_unit_id)
        ELSE IF c = "data_element_name" THEN Lookup(DataElementsMeta, r.data_element_id)
        ELSE r[c]]

Resting == xpc \in {"idle", "done", "failed"}

RunLocalsUnchanged ==
    UNCHANGED <<start_date, end_date, data_elements, last_updated, chunked, todo, data,
                fetches, xnew, xdf, frame, fileAtStart>>

ExtractIdle ==
    /\ now = 0 /\ advances = 0 /\ source = {} /\ file = NoFile /\ xpc = "off" /\ runs = 0
    /\ start_date = 0 /\ end_date = 0 /\ data_elements = <<>> /\ last_updated = {}
    /\ chunked = FALSE /\ todo = <<>> /\ data = <<>> /\ fetches = <<>>
    /\ xnew = <<>> /\ xdf = <<>> /\ frame = <<>> /\ fileAtStart = NoFile

\* Before the first run, on 2020-02-06: dst_file is absent, or holds (in the
\* columns extract_data_elements returns) the values the source holds.
ExtractInit ==
    /\ now = 36 * TicksPerDay /\ advances = 0
    /\ source = Range(InitialRows)
    /\ file \in {NoFile, FileOf(RawColumns, InitialRows)}
    /\ xpc = "idle" /\ runs = 0
    /\ start_date = 0 /\ end_date = 0 /\ data_elements = <<>> /\ last_updated = {}
    /\ chunked = FALSE /\ todo = <<>> /\ data = <<>> /\ fetches = <<>>
    /\ xnew = <<>> /\ xdf = <<>> /\ frame = <<>> /\ fileAtStart = NoFile

\* Time passes between two runs.
Advance ==
    /\ Resting /\ advances < MaxAdvances
    /\ \E d \in {1, TicksPerDay, 179 * TicksPerDay, 180 * TicksPerDay} : now' = now + d
    /\ advances' = advances + 1
    /\ UNCHANGED <<source, file, xpc, runs>>
    /\ RunLocalsUnchanged

\* A data value of the source is entered or updated, between two runs.
SourceWrite ==
    /\ Resting /\ runs < MaxRuns
    /\ \E p \in PeriodDays :
        /\ \A r \in source : r.period = p * TicksPerDay => r.last_updated < now
        /\ source' = {r \in source : r.period # p * TicksPerDay} \cup {DataValue(p, now, 7)}
    /\ UNCHANGED <<now, advances, file, xpc, runs>>
    /\ RunLocalsUnchanged

\* microstratification_extract, lines 135-144: a run starts.
StartRun ==
    /\ Resting /\ runs < MaxRuns
    /\ runs' = runs + 1
    /\ start_date' \in {0, 31 * TicksPerDay, 32 * TicksPerDay}
    /\ end_date' = now
    /\ fileAtStart' = file
    /\ data_elements' = <<>> /\ last_updated' = {} /\ chunked' = FALSE /\ todo' = <<>>
    /\ data' = <<>> /\ fetches' = <<>> /\ xnew' = <<>> /\ xdf' = <<>> /\ frame' = <<>>
    /\ xpc' = "filter"
    /\ UNCHANGED <<now, advances, source, file>>

\* filter_data_elements, lines 167-182.
FilterDataElements ==
    /\ xpc = "filter"
    /\ data_elements' = filter_data_elements(DATA_ELEMENTS, DataElementsMeta)
    /\ xpc' = "extract"
    /\ UNCHANGED <<now, advances, source, file, runs, start_date, end_date, last_updated,
                   chunked, todo, data, fetches, xnew, xdf, frame, fileAtStart>>

\* A request for metadata (get_data_elements, get_organisation_units) fails.
MetadataFails ==
    /\ xpc \in {"filter", "enrich"}
    /\ xpc' = "failed"
    /\ UNCHANGED <<now, advances, source, file, runs>>
    /\ RunLocalsUnchanged

\* extract, lines 195-202 and 223: the high-water mark and the choice of branch.
ExtractBegin ==
    /\ xpc = "extract"
    /\ IF GetLastUpdatedRaises(file)
       THEN xpc' = "failed" /\ UNCHANGED <<last_updated, chunked, todo>>
       ELSE /\ last_updated' = get_last_updated(file)
            /\ chunked' = UseMonthlyChunks(now, get_last_updated(file))
            /\ todo' = IF UseMonthlyChunks(now, get_last_updated(file))
                       THEN monthly_chunks(start_date, end_date)
                       ELSE <<<<start_date, end_date>>>>
            /\ xpc' = "fetch"
    /\ UNCHANGED <<now, advances, source, file, runs, start_date, end_date, data_elements,
                   data, fetches, xnew, xdf, frame, fileAtStart>>

\* extract, lines 203-213 and 224-232: one call of extract_data_elements.
Fetch ==
    /\ xpc = "fetch" /\ todo # <<>>
    /\ fetches' = Append(fetches, Head(todo))
    /\ data' = Append(data, extract_data_elements(source, data_elements,
                                Head(todo)[1], Head(todo)[2], last_updated))
    /\ todo' = Tail(todo)
    /\ UNCHANGED <<now, advances, source, file, xpc, runs, start_date, end_date,
                   data_elements, last_updated, chunked, xnew, xdf, frame, fileAtStart>>

\* extract catching the error of a request and sending the request again.
FetchFailsRetry ==
    /\ xpc = "fetch" /\ todo # <<>>
    /\ fetches' = Append(fetches, Head(todo))
    /\ UNCHANGED <<now, advances, source, file, xpc, runs, start_date, end_date,
                   data_elements, last_updated, chunked, todo, data, xnew, xdf, frame,
                   fileAtStart>>

\* The source answers a request with an error: extract raises.
FetchFails ==
    /\ xpc = "fetch" /\ todo # <<>>
    /\ fetches' = Append(fetches, Head(todo))
    /\ xpc' = "failed"
    /\ UNCHANGED <<now, advances, source, file, runs, start_date, end_date, data_elements,
                   last_updated, chunked, todo, data, xnew, xdf, frame, fileAtStart>>

\* extract with a fault: the merged frame is written to dst_file as soon as
\* it is computed.
ExtractFinishPersisting ==
    /\ xpc = "fetch" /\ todo = <<>>
    /\ xnew' = Flatten(data)
    /\ IF file.exists /\ file.columns # RawColumns
       THEN xpc' = "failed" /\ UNCHANGED <<xdf, frame, file>>
       ELSE /\ IF file.exists
               THEN \E m \in merge_data_values(file.rows, Flatten(data)) :
                       xdf' = m /\ file' = FileOf(RawColumns, m)
               ELSE xdf' = Flatten(data) /\ file' = FileOf(RawColumns, Flatten(data))
            /\ \E s \in SortByPeriod(Flatten(data)) : frame' = s
            /\ xpc' = "enrich"
    /\ UNCHANGED <<now, advances, source, runs, start_date, end_date, data_elements,
                   last_updated, chunked, todo, data, fetches, fileAtStart>>

\* extract, lines 219 and 234-244: new = pl.concat(data); with a file, df is
\* the merge of the file and new (pl.concat raises when their columns differ);
\* the task returns new, sorted.
ExtractFinish ==
    /\ xpc = "fetch" /\ todo = <<>>
    /\ xnew' = Flatten(data)
    /\ IF file.exists /\ file.columns # RawColumns
       THEN xpc' = "failed" /\ UNCHANGED <<xdf, frame>>
       ELSE /\ IF file.exists
               THEN \E m \in merge_data_values(file.rows, Flatten(data)) : xdf' = m
               ELSE xdf' = Flatten(data)
            /\ \E s \in SortByPeriod(Flatten(data)) : frame' = s
            /\ xpc' = "enrich"
    /\ UNCHANGED <<now, advances, source, file, runs, start_date, end_date, data_elements,
                   last_updated, chunked, todo, data, fetches, fileAtStart>>

\* enrich, lines 283-308.
Enrich ==
    /\ xpc = "enrich"
    /\ frame' = [i \in DOMAIN frame |-> EnrichRow(frame[i])]
    /\ xpc' = "write"
    /\ UNCHANGED <<now, advances, source, file, runs, start_date, end_date, data_elements,
                   last_updated, chunked, todo, data, fetches, xnew, xdf, fileAtStart>>

\* write, lines 311-315: dst_file is overwritten.
Write ==
    /\ xpc = "write"
    /\ file' = FileOf(EnrichedColumns, frame)
    /\ xpc' = "done"
    /\ UNCHANGED <<now, advances, source, runs, start_date, end_date, data_elements,
                   last_updated, chunked, todo, data, fetches, xnew, xdf, frame, fileAtStart>>

(***************************************************************************)
(* endos_redop_completeness: build_payload.                                *)
(*                                                                         *)
(* A value that may be None is a set: {} for None, {v} for v.  The values  *)
(* of the REDOP snapshot are the strings DHIS2 returns, modelled as their  *)
(* sequences of decimal digits; the ENDOS metrics are integers (cast by    *)
(* transform_endos_completeness).                                          *)
(***************************************************************************)
\* DATA_ELEMENTS of build_payload, in the order the dict is iterated.
MetricNames == <<"actual_reports", "actual_reports_on_time", "expected_reports">>

MetricDataElement ==
    [actual_reports |-> "Ae9s1MsUEYq", actual_reports_on_time |-> "dGkVTxwolrD",
     expected_reports |-> "R5UJwkTo2HV"]

\* int(s) for a string of decimal digits.
RECURSIVE ParseInt(_)
ParseInt(digits) ==
    IF digits = <<>> THEN 0
    ELSE ParseInt(SubSeq(digits, 1, Len(digits) - 1)) * 10 + digits[Len(digits)]

TheValue(opt) == CHOOSE v \in opt : TRUE

\* The rows of redop_data with a value, as build_payload normalises them.
InRedop(redop) ==
    LET HasValue(row) == row.value # {}
        kept == SelectSeq(redop, HasValue)
    IN  [i \in DOMAIN kept |->
            [dataElement |-> kept[i].dataElement, period |-> kept[i].period,
             orgUnit |-> kept[i].orgUnit, value |-> ParseInt(TheValue(kept[i].value))]]

\* RowDataValues with a fault: "if not value: continue" also skips the value 0.
RowDataValuesTruthy(row) ==
    LET HasValue(name) == row[name] # {} /\ row[name] # {0}
        names == SelectSeq(MetricNames, HasValue)
    IN  [k \in DOMAIN names |->
            [dataElement |-> MetricDataElement[names[k]], period |-> row.period,
             orgUnit |-> row.ou_id, value |-> TheValue(row[names[k]])]]

\* The data values of one ENDOS row, one per metric with a value.
RowDataValues(row) ==
    LET HasValue(name) == row[name] # {}
        names == SelectSeq(MetricNames, HasValue)
    IN  [k \in DOMAIN names |->
            [dataElement |-> MetricDataElement[names[k]], period |-> row.period,
             orgUnit |-> row.ou_id, value |-> TheValue(row[names[k]])]]

\* build_payload with a fault: every data value with a value is appended.
build_payload_all(endos, redop) ==
    Flatten([i \in DOMAIN endos |-> RowDataValues(endos[i])])

\* build_payload(endos_data, redop_data)
build_payload(endos, redop) ==
    LET in_redop == InRedop(redop)
        NotInRedop(data_value) == data_value \notin Range(in_redop)
    IN  Flatten([i \in DOMAIN endos |-> SelectSeq(RowDataValues(endos[i]), NotInRedop)])

\* The ENDOS completeness rows (one district, one period) and the REDOP data
\* values the payload is built from.
EndosRows ==
    {[period |-> "202401", ou_id |-> "ouA", actual_reports |-> a,
      actual_reports_on_time |-> t, expected_reports |-> e]
        : a \in {{}, {0}, {3}}, t \in {{}, {3}}, e \in {{}, {3}}}

RedopRows ==
    {[dataElement |-> de, period |-> "202401", orgUnit |-> ou, value |-> v]
        : de \in {MetricDataElement[n] : n \in Range(MetricNames)},
          ou \in {"ouA", "ouB"},
          v \in {{}, {<<3>>}, {<<0, 3>>}}}

PayloadIdle == endos_data = <<>> /\ redop_data = <<>> /\ payload = <<>> /\ ppc = "off"

PayloadInit ==
    /\ endos_data \in SeqUpTo(EndosRows, MaxEndosRows)
    /\ redop_data \in SeqUpTo(RedopRows, MaxRedopRows)
    /\ payload = <<>>
    /\ ppc = "ready"

BuildPayload ==
    /\ ppc = "ready"
    /\ payload' = build_payload(endos_data, redop_data)
    /\ ppc' = "done"
    /\ UNCHANGED <<endos_data, redop_data>>

(***************************************************************************)
(* endos_redop_completeness: chunkify and post.                            *)
(***************************************************************************)
\* The batch size post gives chunkify.
BatchSize == 1000

\* src_list[a : b], for 0 <= a <= len(src_list).
Slice(src_list, a, b) == SubSeq(src_list, a + 1, Min(b, Len(src_list)))

\* chunkify with a fault: the slice is src_list[i : i + n - 1].
RECURSIVE ChunksFromShort(_, _, _)
ChunksFromShort(src_list, n, i) ==
    IF i >= Len(src_list) THEN <<>>
    ELSE <<Slice(src_list, i, i + n - 1)>> \o ChunksFromShort(src_list, n, i + n)

chunkify_short(src_list, n) == ChunksFromShort(src_list, n, 0)

\* for i in range(0, len(src_list), n): yield src_list[i : i + n]
RECURSIVE ChunksFrom(_, _, _)
ChunksFrom(src_list, n, i) ==
    IF i >= Len(src_list) THEN <<>>
    ELSE <<Slice(src_list, i, i + n)>> \o ChunksFrom(src_list, n, i + n)

\* chunkify(src_list, n): the chunks the generator yields.
chunkify(src_list, n) == ChunksFrom(src_list, n, 0)

\* push_climate_data_auto, _merge_import_counts: the field-wise sums.
RECURSIVE merge_import_counts(_)
merge_import_counts(import_counts) ==
    IF import_counts = <<>>
    THEN [imported |-> 0, updated |-> 0, ignored |-> 0, deleted |-> 0]
    ELSE LET rest == merge_import_counts(Tail(import_counts))
             count == Head(import_counts)
         IN  [imported |-> rest.imported + count.imported,
              updated |-> rest.updated + count.updated,
              ignored |-> rest.ignored + count.ignored,
              deleted |-> rest.deleted + count.deleted]

\* The import summaries the destination answers a dataValueSets request with.
ImportSummaries ==
    {[status |-> "SUCCESS", description |-> "Import process completed successfully",
      importCount |-> [imported |-> 2, updated |-> 1, ignored |-> 0, deleted |-> 0]],
     [status |-> "ERROR", description |-> "Import process was aborted",
      importCount |-> [imported |-> 0, updated |-> 0, ignored |-> 3, deleted |-> 0]]}

PostIdle ==
    /\ post_payload = <<>> /\ sent = <<>> /\ summaries = <<>> /\ post_result = {}
    /\ postpc = "off"

\* post is called with a payload of any length up to MaxPayloadLen; the data
\* values are told apart by their position in the payload.
PostInit ==
    /\ post_payload \in {[i \in 1..n |-> i] : n \in 0..MaxPayloadLen}
    /\ sent = <<>> /\ summaries = <<>> /\ post_result = {}
    /\ postpc = "loop"

\* post, lines 315-316: the next chunk is posted; the answer is not read.
PostChunk ==
    /\ postpc = "loop"
    /\ Len(sent) < Len(chunkify(post_payload, BatchSize))
    /\ sent' = Append(sent, chunkify(post_payload, BatchSize)[Len(sent) + 1])
    /\ \E summary \in ImportSummaries : summaries' = Append(summaries, summary)
    /\ UNCHANGED <<post_payload, post_result, postpc>>

\* post: the loop is over, the function returns None.
PostReturn ==
    /\ postpc = "loop"
    /\ Len(sent) = Len(chunkify(post_payload, BatchSize))
    /\ post_result' = {}
    /\ postpc' = "done"
    /\ UNCHANGED <<post_payload, sent, summaries>>

(***************************************************************************)
(* push_climate_data_auto, push_tloh, push_tloh_completeness: the pushes   *)
(* to the destination DHIS2.                                               *)
(*                                                                         *)
(* Calling a task in the pipeline function registers it; the task runs     *)
(* once every task whose result it is given has returned.  That is the     *)
(* only order between tasks ("wait: Dummy parameter to wait for dry run to *)
(* finish", push, line 224): the requests of tasks that are not linked     *)
(* this way interleave.  A task that raises ends the run.                  *)
(*                                                                         *)
(* A request is [src, batch, dryRun]: the variable (or the file) and the   *)
(* org unit (or 1) its data values belong to, and its dryRun parameter.    *)
(***************************************************************************)
\* VARIABLES of push_climate_data, lines 60-66.
ClimateVariables ==
    <<"temperature_mean", "temperature_min", "temperature_max", "precipitation",
      "soil_water">>

\* The variables of a run: the first MaxVariables of the list.
Pushed == 1..Min(MaxVariables, Len(ClimateVariables))

NoCount == [imported |-> 0, updated |-> 0, ignored |-> 0, deleted |-> 0]

\* What the destination answers a request with: an import summary, or an
\* HTTP error status (r.raise_for_status() raises).
Responses ==
    {[http |-> 200, summary |-> s] : s \in ImportSummaries}
        \cup {[http |-> 500,
               summary |-> [status |-> "", description |-> "", importCount |-> NoCount]]}

\* push_data_values, lines 352-356: what the answer of a request raises.
RaisedBy(r) ==
    IF r.http # 200 THEN {[type |-> "HTTPError", message |-> "500 Server Error"]}
    ELSE IF ~(r.summary.status = "SUCCESS")
         THEN {[type |-> "DHIS2ImportError", message |-> r.summary.description]}
         ELSE {}

\* push_data_values, lines 358-359: the import counts of a push that returns.
ImportCountsOf(log) == merge_import_counts([k \in DOMAIN log |-> log[k].summary.importCount])

\* push_climate_data, line 128: push is called unless dry_run_only.
PushCalledAlways(dry_run_only) == TRUE

PushCalled(dry_run_only) == ~dry_run_only

\* The tasks of a variable as push_climate_data registers them, lines 107-135.
RegisteredTask(dry_run_only) ==
    [prepare |-> "ready", data_values |-> 0,
     dry |-> "waiting", dry_log |-> <<>>, count_dry |-> {},
     push |-> IF PushCalled(dry_run_only) THEN "waiting" ELSE "none",
     push_log |-> <<>>, count |-> {}]

\* push_dry_run is given data_values, the result of prepare_data_values.
PushDryRunReady(t) == t.prepare = "done" /\ t.dry = "waiting"

\* push without its wait parameter.
PushReadyNoWait(t) == t.prepare = "done" /\ t.push = "waiting"

\* push is given data_values and wait=count_dry, the result of push_dry_run.
PushReady(t) == t.prepare = "done" /\ t.dry = "done" /\ t.push = "waiting"

PushIdle ==
    /\ push_pipeline = "off" /\ dry_run = FALSE /\ crun = "off" /\ ctask = <<>>
    /\ cerror = {} /\ requests = {} /\ tdata = <<>> /\ tdone = <<>> /\ tpc = "off"
    /\ twarnings = <<>>

\* A run of one of the three pipelines, with its dry-run parameter.
PushInit ==
    /\ push_pipeline \in {"push-climate-data-auto", "push-tloh", "push-tloh-completeness"}
    /\ dry_run \in BOOLEAN
    /\ crun = IF push_pipeline = "push-climate-data-auto" THEN "connect" ELSE "off"
    /\ tpc = IF push_pipeline = "push-climate-data-auto" THEN "off" ELSE "find_data"
    /\ ctask = <<>> /\ cerror = {} /\ requests = {}
    /\ tdata = <<>> /\ tdone = <<>> /\ twarnings = <<>>

TlohUnchanged == UNCHANGED <<tdata, tdone, tpc, twarnings>>

\* push_climate_data, lines 84-99: the connection has no password, or
\* GET /api/me answers with an error status.
ClimateConnectFails ==
    /\ crun = "connect"
    /\ \E e \in {[type |-> "ConnectionError",
                  message |-> "No password set for DHIS2 connection"],
                 [type |-> "HTTPError", message |-> "401 Unauthorized"]} : cerror' = {e}
    /\ crun' = "failed"
    /\ UNCHANGED <<push_pipeline, dry_run, ctask, requests>>
    /\ TlohUnchanged

\* push_climate_data, lines 84-137: connected, the tasks of every variable
\* are registered.
ClimateRegister ==
    /\ crun = "connect"
    /\ ctask' = [v \in Pushed |-> RegisteredTask(dry_run)]
    /\ crun' = "tasks"
    /\ UNCHANGED <<push_pipeline, dry_run, cerror, requests>>
    /\ TlohUnchanged

\* prepare_data_values, lines 141-151: the data values per org unit, or
\* pd.read_parquet raises.
PrepareDataValues(v) ==
    /\ crun = "tasks" /\ ctask[v].prepare = "ready"
    /\ \/ /\ \E n \in 0..MaxOrgUnits :
                ctask' = [ctask EXCEPT ![v].prepare = "done", ![v].data_values = n]
          /\ UNCHANGED <<crun, cerror>>
       \/ /\ ctask' = [ctask EXCEPT ![v].prepare = "failed"]
          /\ cerror' = {[type |-> "FileNotFoundError", message |-> ClimateVariables[v]]}
          /\ crun' = "failed"
    /\ UNCHANGED <<push_pipeline, dry_run, requests>>
    /\ TlohUnchanged

\* push_dry_run -> push_data_values(dry_run=True), lines 346-358: the data
\* values of the next org unit are posted.
PushDryRunPost(v) ==
    /\ crun = "tasks" /\ PushDryRunReady(ctask[v])
    /\ Len(ctask[v].dry_log) < ctask[v].data_values
    /\ requests' = requests \cup
          {[src |-> v, batch |-> Len(ctask[v].dry_log) + 1, dryRun |-> TRUE]}
    /\ \E r \in Responses :
          IF RaisedBy(r) = {}
          THEN /\ ctask' = [ctask EXCEPT ![v].dry_log = Append(@, r)]
               /\ UNCHANGED <<crun, cerror>>
          ELSE /\ ctask' = [ctask EXCEPT ![v].dry_log = Append(@, r), ![v].dry = "failed"]
               /\ cerror' = RaisedBy(r)
               /\ crun' = "failed"
    /\ UNCHANGED <<push_pipeline, dry_run>>
    /\ TlohUnchanged

\* push_dry_run, lines 359 and 187-191: every org unit is posted, the merged
\* import counts are returned.
PushDryRunReturn(v) ==
    /\ crun = "tasks" /\ PushDryRunReady(ctask[v])
    /\ Len(ctask[v].dry_log) = ctask[v].data_values
    /\ ctask' = [ctask EXCEPT ![v].dry = "done",
                              ![v].count_dry = {ImportCountsOf(ctask[v].dry_log)}]
    /\ UNCHANGED <<push_pipeline, dry_run, crun, cerror, requests>>
    /\ TlohUnchanged

\* push -> push_data_values(dry_run=False), lines 346-358.
PushPost(v) ==
    /\ crun = "tasks" /\ PushReady(ctask[v])
    /\ Len(ctask[v].push_log) < ctask[v].data_values
    /\ requests' = requests \cup
          {[src |-> v, batch |-> Len(ctask[v].push_log) + 1, dryRun |-> FALSE]}
    /\ \E r \in Responses :
          IF RaisedBy(r) = {}
          THEN /\ ctask' = [ctask EXCEPT ![v].push_log = Append(@, r)]
               /\ UNCHANGED <<crun, cerror>>
          ELSE /\ ctask' = [ctask EXCEPT ![v].push_log = Append(@, r), ![v].push = "failed"]
               /\ cerror' = RaisedBy(r)
               /\ crun' = "failed"
    /\ UNCHANGED <<push_pipeline, dry_run>>
    /\ TlohUnchanged

\* push, lines 359 and 238.
PushReturn(v) ==
    /\ crun = "tasks" /\ PushReady(ctask[v])
    /\ Len(ctask[v].push_log) = ctask[v].data_values
    /\ ctask' = [ctask EXCEPT ![v].push = "done",
                              ![v].count = {ImportCountsOf(ctask[v].push_log)}]
    /\ UNCHANGED <<push_pipeline, dry_run, crun, cerror, requests>>
    /\ TlohUnchanged

\* Every registered task has returned: the run is over.
ClimateDone ==
    /\ crun = "tasks"
    /\ \A v \in Pushed : ctask[v].dry = "done" /\ ctask[v].push \in {"none", "done"}
    /\ crun' = "done"
    /\ UNCHANGED <<push_pipeline, dry_run, ctask, cerror, requests>>
    /\ TlohUnchanged

ClimateUnchanged == UNCHANGED <<crun, ctask, cerror>>

\* find_data (push_tloh lines 57-74, push_tloh_completeness lines 58-75): the
\* data files found, told apart by their position; or iterdir raises.
FindData ==
    /\ tpc = "find_data"
    /\ \/ \E n \in 0..MaxFiles : tdata' = [i \in 1..n |-> i] /\ tpc' = "org_units"
       \/ tdata' = tdata /\ tpc' = "failed"
    /\ UNCHANGED <<push_pipeline, dry_run, requests, tdone, twarnings>>
    /\ ClimateUnchanged

\* push (push_tloh lines 156-160, push_tloh_completeness lines 149-151): the
\* org units of level 4 are read, or the request raises.
PushOrgUnits ==
    /\ tpc = "org_units"
    /\ tpc' \in {"loop", "failed"}
    /\ UNCHANGED <<push_pipeline, dry_run, requests, tdata, tdone, twarnings>>
    /\ ClimateUnchanged

\* except Exception, with a raise added after the warnings.
OnFileErrorRaise(done, warnings, src, error) ==
    [tdone |-> Append(done, error), twarnings |-> Append(warnings, src), tpc |-> "failed"]

\* except Exception (push_tloh lines 189-191, push_tloh_completeness lines
\* 178-180): the file and the trace are logged as warnings, the loop goes on.
OnFileError(done, warnings, src, error) ==
    [tdone |-> Append(done, error), twarnings |-> Append(warnings, src), tpc |-> "loop"]

\* The file the loop of push is at.
NextFile == tdata[Len(tdone) + 1]

\* push, the body of the loop: transform raises.
PushTransformFails ==
    /\ tpc = "loop" /\ Len(tdone) < Len(tdata)
    /\ LET after == OnFileError(tdone, twarnings, NextFile, "transform_error")
       IN  tdone' = after.tdone /\ twarnings' = after.twarnings /\ tpc' = after.tpc
    /\ UNCHANGED <<push_pipeline, dry_run, requests, tdata>>
    /\ ClimateUnchanged

\* push, the body of the loop: the values are posted with dry_run=dry_run and
\* data_value_sets.post raises.
PushPostFails ==
    /\ tpc = "loop" /\ Len(tdone) < Len(tdata)
    /\ requests' = requests \cup {[src |-> NextFile, batch |-> 1, dryRun |-> dry_run]}
    /\ LET after == OnFileError(tdone, twarnings, NextFile, "post_error")
       IN  tdone' = after.tdone /\ twarnings' = after.twarnings /\ tpc' = after.tpc
    /\ UNCHANGED <<push_pipeline, dry_run, tdata>>
    /\ ClimateUnchanged

\* push, the body of the loop: the values are posted and the report is logged.
PushFile ==
    /\ tpc = "loop" /\ Len(tdone) < Len(tdata)
    /\ requests' = requests \cup {[src |-> NextFile, batch |-> 1, dryRun |-> dry_run]}
    /\ tdone' = Append(tdone, "pushed")
    /\ UNCHANGED <<push_pipeline, dry_run, tdata, tpc, twarnings>>
    /\ ClimateUnchanged

\* push: the loop is over, the task returns.
PushFilesReturn ==
    /\ tpc = "loop" /\ Len(tdone) = Len(tdata)
    /\ tpc' = "done"
    /\ UNCHANGED <<push_pipeline, dry_run, requests, tdata, tdone, twarnings>>
    /\ ClimateUnchanged

(***************************************************************************)
(* The pipelines that run notebooks: snt_risk_stratification,              *)
(* snt_data_cleaning, snt_data_outliers, snt_imputation, snt_dhs_extract,  *)
(* snt_dhis2_extract and bulletin_generate.                                *)
(*                                                                         *)
(* The pipeline function registers its tasks and returns; the tasks then   *)
(* run, each after the task whose result it is given: in these pipelines   *)
(* that is one after the other.  A task that raises ends the run with that *)
(* error; a run whose tasks have all returned completes normally.          *)
(* A parameter that may be None is a set.                                  *)
(***************************************************************************)
SntPipelines ==
    {"snt-risk-stratification", "snt-data-cleaning", "snt-data-outliers",
     "snt-imputation", "snt-dhs-extract", "snt-dhis2-extract", "bulletin_generate"}

\* The parameters at their defaults.
DefaultParams ==
    [download_analytics |-> FALSE, format_routine |-> FALSE, start |-> {}, end |-> {},
     population_extract |-> FALSE, shapes_extract |-> FALSE, pyramid_data |-> TRUE,
     outliers_method |-> {}, imputation_process |-> {}, outliers_file |-> {},
     imputation_file |-> "outliers.csv"]

\* The workspace files a run finds: SNT_config.json (missing, not JSON,
\* without the keys the tasks read, or valid), the routine data directory,
\* the outliers file, the imputation file and the notebook of the bulletin.
DefaultEnv ==
    [config |-> "valid", output_dir |-> TRUE, outliers_file |-> TRUE,
     imputation_file |-> TRUE, notebook_file |-> TRUE]

ImputationChoices ==
    {"Use edited outliers file", "Outliers method selected", "Impute with average"}

\* pm.execute_notebook returns ({}), or raises.
NotebookOutcomes == {{}, {"PapermillExecutionError"}}

SntIdle ==
    /\ snt_pipeline = "off" /\ sparams = DefaultParams /\ senv = DefaultEnv
    /\ spc = "off" /\ stodo = <<>> /\ executed = <<>> /\ dhis2_requests = 0
    /\ error_log = <<>> /\ serror = {} /\ sreturns = <<>> /\ snt_config = ""
    /\ file_outputs = <<>>

\* A run of one of the pipelines, with its parameters and workspace files.
SntInit ==
    /\ snt_pipeline \in SntPipelines
    /\ sparams \in
         IF snt_pipeline = "snt-dhis2-extract"
         THEN {[DefaultParams EXCEPT !.download_analytics = f[1], !.format_routine = f[2],
                                      !.population_extract = f[3], !.shapes_extract = f[4],
                                      !.pyramid_data = f[5], !.start = s, !.end = e] :
                 f \in [1..5 -> BOOLEAN], s \in {{}, {202310}}, e \in {{}, {202401}}}
         ELSE IF snt_pipeline = "snt-data-cleaning"
         THEN {[DefaultParams EXCEPT !.outliers_method = m, !.imputation_process = p,
                                      !.outliers_file = o] :
                 m \in {{}, {"IQR * 1.5"}},
                 p \in {{}} \cup {{c} : c \in ImputationChoices \cup {"other"}},
                 o \in {{}, {"outliers.csv"}}}
         ELSE {DefaultParams}
    /\ senv \in
         IF snt_pipeline = "snt-dhis2-extract"
         THEN {[DefaultEnv EXCEPT !.config = c, !.output_dir = d] :
                 c \in {"missing", "invalid_json", "incomplete", "valid"}, d \in BOOLEAN}
         ELSE IF snt_pipeline = "snt-data-cleaning"
         THEN {[DefaultEnv EXCEPT !.outliers_file = x] : x \in BOOLEAN}
         ELSE IF snt_pipeline = "snt-imputation"
         THEN {[DefaultEnv EXCEPT !.imputation_file = x] : x \in BOOLEAN}
         ELSE IF snt_pipeline = "bulletin_generate"
         THEN {[DefaultEnv EXCEPT !.notebook_file = x] : x \in BOOLEAN}
         ELSE {DefaultEnv}
    /\ spc = "function" /\ stodo = <<>> /\ executed = <<>> /\ dhis2_requests = 0
    /\ error_log = <<>> /\ serror = {} /\ sreturns = <<>> /\ snt_config = ""
    /\ file_outputs = <<>>

SntInputsUnchanged == UNCHANGED <<snt_pipeline, sparams, senv>>

\* The pipeline function of p is about to run.
FunctionOf(p) == snt_pipeline = p /\ spc = "function"

\* The pipeline function registered these tasks and returned.
Registers(tasks) ==
    /\ stodo' = tasks /\ spc' = "tasks"
    /\ UNCHANGED <<executed, dhis2_requests, serror, sreturns>>
    /\ UNCHANGED file_outputs
    /\ SntInputsUnchanged

\* The task named name of pipeline p is the next to run.
TaskIs(p, name) == snt_pipeline = p /\ spc = "tasks" /\ stodo # <<>> /\ Head(stodo) = name

TaskReturns(value) ==
    /\ stodo' = Tail(stodo) /\ sreturns' = Append(sreturns, value)
    /\ UNCHANGED <<spc, serror>>

TaskRaises(error) ==
    /\ serror' = {error} /\ spc' = "failed"
    /\ UNCHANGED <<stodo, sreturns>>

\* pm.execute_notebook was called on notebook nb, with outcome o.
Executed(nb, o) == Append(executed, [nb |-> nb, error |-> o])

\* Every task has returned.
SntDone ==
    /\ spc = "tasks" /\ stodo = <<>>
    /\ spc' = "done"
    /\ UNCHANGED <<stodo, executed, dhis2_requests, error_log, serror, sreturns, snt_config>>
    /\ UNCHANGED file_outputs
    /\ SntInputsUnchanged

\* ---- snt_risk_stratification
\* snt_risk_stratification, lines 9-29: success is the task, not its result,
\* when line 24 tests it.
RiskFunction ==
    /\ FunctionOf("snt-risk-stratification")
    /\ Registers(<<"run_incidence_notebook", "run_prevalence_mortality">>)
    /\ UNCHANGED <<error_log, snt_config>>

\* run_incidence_notebook, lines 34-52, with run_notebook, lines 78-97: an
\* error of the notebook is logged twice and the task returns False.
RunIncidenceNotebook ==
    /\ TaskIs("snt-risk-stratification", "run_incidence_notebook")
    /\ \E o \in NotebookOutcomes :
          /\ executed' = Executed("SNT_1_Incidence", o)
          /\ error_log' = IF o = {} THEN error_log
                          ELSE error_log \o <<"Error executing notebook", "Papermill Error">>
          /\ TaskReturns(IF o = {} THEN "True" ELSE "False")
    /\ UNCHANGED <<dhis2_requests, snt_config>>
    /\ UNCHANGED file_outputs
    /\ SntInputsUnchanged

\* run_prevalence_mortality, lines 57-74: an error of the notebook is logged
\* twice and raised again.
RunPrevalenceMortality ==
    /\ TaskIs("snt-risk-stratification", "run_prevalence_mortality")
    /\ \E o \in NotebookOutcomes :
          /\ executed' = Executed("SNT_2_Prevalence_Mortality", o)
          /\ IF o = {}
             THEN error_log' = error_log /\ TaskReturns("None")
             ELSE /\ error_log' =
                        error_log \o <<"Error executing notebook", "Papermill Error">>
                  /\ TaskRaises(CHOOSE e \in o : TRUE)
    /\ UNCHANGED <<dhis2_requests, snt_config>>
    /\ UNCHANGED file_outputs
    /\ SntInputsUnchanged

\* ---- snt_data_cleaning
\* snt_data_cleaning, lines 37-77: the checks of the outliers file raise
\* inside the try, the error is logged and no task is registered.
CleaningFunction ==
    /\ FunctionOf("snt-data-cleaning")
    /\ IF (sparams.imputation_process = {"Use edited outliers file"}
           /\ (sparams.outliers_file = {} \/ ~senv.outliers_file))
       THEN /\ error_log' = Append(error_log,
                  IF sparams.outliers_file = {}
                  THEN "Error: Please provide a valid outliers file name"
                  ELSE "Error: The provided outliers file can not be found")
            /\ Registers(<<>>)
       ELSE /\ error_log' = error_log
            /\ Registers(<<"run_outliers", "run_imputation">>)
    /\ UNCHANGED snt_config

\* run_outliers, lines 81-100, with run_notebook, lines 140-160.
CleaningRunOutliers ==
    /\ TaskIs("snt-data-cleaning", "run_outliers")
    /\ IF sparams.outliers_method = {}
       THEN executed' = executed /\ TaskReturns("True")
       ELSE \E o \in NotebookOutcomes :
               /\ executed' = Executed("SNT_1_outliers_detection", o)
               /\ IF o = {} THEN TaskReturns("True")
                  ELSE TaskRaises("Exception: Error in outliers detection")
    /\ UNCHANGED <<dhis2_requests, error_log, snt_config>>
    /\ UNCHANGED file_outputs
    /\ SntInputsUnchanged

\* run_imputation, lines 104-137: without imputation_process the task
\* returns; with a value outside the choices, a ValueError is built but not
\* raised, parameters is unbound and reading it raises inside the try.
CleaningRunImputation ==
    /\ TaskIs("snt-data-cleaning", "run_imputation")
    /\ IF sparams.imputation_process = {}
       THEN executed' = executed /\ TaskReturns("None")
       ELSE IF ~(sparams.imputation_process \subseteq ImputationChoices)
       THEN executed' = executed /\ TaskRaises("Exception: Error in imputation process")
       ELSE \E o \in NotebookOutcomes :
               /\ executed' = Executed("SNT_2_data_imputation", o)
               /\ IF o = {} THEN TaskReturns("None")
                  ELSE TaskRaises("Exception: Error in imputation process")
    /\ UNCHANGED <<dhis2_requests, error_log, snt_config>>
    /\ UNCHANGED file_outputs
    /\ SntInputsUnchanged

\* ---- snt_data_outliers
\* snt_data_outliers, lines 9-24.
OutliersFunction ==
    /\ FunctionOf("snt-data-outliers")
    /\ Registers(<<"run_outliers">>)
    /\ UNCHANGED <<error_log, snt_config>>

\* run_outliers, lines 28-45, with run_notebook, lines 48-68.
OutliersRunOutliers ==
    /\ TaskIs("snt-data-outliers", "run_outliers")
    /\ \E o \in NotebookOutcomes :
          /\ executed' = Executed("SNT_1_outliers_detection", o)
          /\ IF o = {} THEN TaskReturns("True")
             ELSE TaskRaises("Exception: Error in outliers detection")
    /\ UNCHANGED <<dhis2_requests, error_log, snt_config>>
    /\ UNCHANGED file_outputs
    /\ SntInputsUnchanged

\* ---- snt_imputation
\* snt_imputation, lines 17-32.
ImputationFunction ==
    /\ FunctionOf("snt-imputation")
    /\ Registers(<<"run_imputation">>)
    /\ UNCHANGED <<error_log, snt_config>>

\* run_imputation, lines 36-59, with run_notebook, lines 62-82.
ImputationRunImputation ==
    /\ TaskIs("snt-imputation", "run_imputation")
    /\ IF ~senv.imputation_file
       THEN /\ executed' = executed
            /\ TaskRaises("ValueError: Outliers file does not exist or is not valid.")
       ELSE \E o \in NotebookOutcomes :
               /\ executed' = Executed("SNT_1_data_imputation", o)
               /\ IF o = {} THEN TaskReturns("True")
                  ELSE TaskRaises("Exception: Error in outliers detection")
    /\ UNCHANGED <<dhis2_requests, error_log, snt_config>>
    /\ UNCHANGED file_outputs
    /\ SntInputsUnchanged

\* ---- snt_dhs_extract
\* snt_dhs_extract, lines 9-35: run_notebook is the task.
DhsFunction ==
    /\ FunctionOf("snt-dhs-extract")
    /\ Registers(<<"run_notebook">>)
    /\ UNCHANGED <<error_log, snt_config>>

\* run_notebook, lines 39-58: an error of the notebook is logged and raised
\* again.
DhsRunNotebook ==
    /\ TaskIs("snt-dhs-extract", "run_notebook")
    /\ \E o \in NotebookOutcomes :
          /\ executed' = Executed("DHS_formatting", o)
          /\ IF o = {}
             THEN error_log' = error_log /\ TaskReturns("None")
             ELSE /\ error_log' = Append(error_log, "Error executing notebook")
                  /\ TaskRaises(CHOOSE e \in o : TRUE)
    /\ UNCHANGED <<dhis2_requests, snt_config>>
    /\ UNCHANGED file_outputs
    /\ SntInputsUnchanged

\* ---- bulletin_generate
BULLETIN_PATH ==
    "notebooks/bulletin_automatisation/hebdomadaire/report/bulletin_hebdomadaire_paludisme.docx"

\* bulletin_generate, lines 10-12.
BulletinFunction ==
    /\ FunctionOf("bulletin_generate")
    /\ Registers(<<"run_notebook">>)
    /\ UNCHANGED <<error_log, snt_config>>

\* How pm.execute_notebook ends in run_notebook of bulletin_generate: on a
\* notebook that is not a file, it raises.
BulletinOutcomes ==
    IF senv.notebook_file THEN NotebookOutcomes ELSE {{"FileNotFoundError"}}

\* run_notebook, lines 15-32: a missing notebook is logged and
\* pm.execute_notebook is called all the same.
BulletinRunNotebook ==
    /\ TaskIs("bulletin_generate", "run_notebook")
    /\ \E o \in BulletinOutcomes :
          /\ error_log' = IF senv.notebook_file THEN error_log
                          ELSE Append(error_log, "Cannot found notebook")
          /\ executed' = Executed("Automatisation_bulletin", o)
          /\ IF o = {}
             THEN file_outputs' = Append(file_outputs, BULLETIN_PATH) /\ TaskReturns("None")
             ELSE file_outputs' = file_outputs /\ TaskRaises(CHOOSE e \in o : TRUE)
    /\ UNCHANGED <<dhis2_requests, snt_config>>
    /\ SntInputsUnchanged

\* ---- snt_dhis2_extract
\* snt_dhis2_extract, lines 71-125: each task is given the result of the one
\* before it.
Dhis2ExtractFunction ==
    /\ FunctionOf("snt-dhis2-extract")
    /\ Registers(<<"load_configuration_SNT", "get_dhis2_analytics_and_format",
                   "get_dhis2_population_and_format", "get_dhis2_shapes_and_format",
                   "get_dhis2_pyramid">>)
    /\ UNCHANGED <<error_log, snt_config>>

\* load_configuration_SNT falling back on a built-in configuration.
load_configuration_SNT_default(config) ==
    [raises |-> {}, logged |-> <<>>,
     value |-> IF config \in {"missing", "invalid_json"} THEN "valid" ELSE config]

\* load_configuration_SNT, lines 131-152: the first handler that matches
\* (FileNotFoundError, JSONDecodeError, ..., Exception) sets error_msg and
\* ends the try statement; the second "except Exception", which logs and
\* raises, is never entered; "return config_json" then reads an unbound name.
load_configuration_SNT(config) ==
    IF config \in {"missing", "invalid_json"}
    THEN [raises |-> {"UnboundLocalError: config_json"}, logged |-> <<>>, value |-> ""]
    ELSE [raises |-> {}, logged |-> <<>>, value |-> config]

LoadConfigurationSNT ==
    /\ TaskIs("snt-dhis2-extract", "load_configuration_SNT")
    /\ LET res == load_configuration_SNT(senv.config)
       IN  /\ error_log' = error_log \o res.logged
           /\ IF res.raises = {}
              THEN snt_config' = res.value /\ TaskReturns("config")
              ELSE snt_config' = snt_config /\ TaskRaises(CHOOSE e \in res.raises : TRUE)
    /\ UNCHANGED <<executed, dhis2_requests>>
    /\ UNCHANGED file_outputs
    /\ SntInputsUnchanged

\* start is None or end is None
PeriodMissing == sparams.start = {} \/ sparams.end = {}

\* How the download of get_dhis2_analytics_and_format can go: not asked for;
\* get raises before any request (no output directory); a request to DHIS2
\* raises; or the data is downloaded.
DownloadOutcomes ==
    IF ~sparams.download_analytics THEN {"skipped"}
    ELSE IF ~senv.output_dir THEN {"no_output_dir"}
    ELSE {"downloaded", "dhis2_error"}

\* get_dhis2_analytics_and_format, lines 157-210, with get, lines 317-392,
\* and run_notebook, lines 396-418.
GetDhis2AnalyticsAndFormat ==
    /\ TaskIs("snt-dhis2-extract", "get_dhis2_analytics_and_format")
    /\ IF snt_config = "incomplete"
       THEN /\ TaskRaises("KeyError: RAW_INPUT_FILES")
            /\ UNCHANGED <<executed, dhis2_requests, error_log, file_outputs>>
       ELSE IF sparams.download_analytics /\ PeriodMissing
       THEN /\ error_log' = Append(error_log, "Empty period input start-end")
            /\ TaskRaises("RuntimeError: No active exception to reraise")
            /\ UNCHANGED <<executed, dhis2_requests, file_outputs>>
       ELSE \E dl \in DownloadOutcomes, o \in NotebookOutcomes :
               IF dl = "no_output_dir"
               THEN /\ error_log' = error_log \o
                          <<"SNT Output path do not exist.", "Error while downloading">>
                    /\ TaskRaises("Exception")
                    /\ UNCHANGED <<executed, dhis2_requests, file_outputs>>
               ELSE IF dl = "dhis2_error"
               THEN /\ dhis2_requests' = dhis2_requests + 1
                    /\ error_log' = Append(error_log, "Error while downloading")
                    /\ TaskRaises("DHIS2Error")
                    /\ UNCHANGED <<executed, file_outputs>>
               ELSE /\ dhis2_requests' = dhis2_requests + (IF dl = "downloaded" THEN 1 ELSE 0)
                    /\ file_outputs' = IF dl = "downloaded"
                                       THEN Append(file_outputs, "routine_data/DHIS2_FILE")
                                       ELSE file_outputs
                    /\ IF ~sparams.format_routine
                       THEN /\ TaskReturns("0")
                            /\ UNCHANGED <<executed, error_log>>
                       ELSE /\ executed' = Executed("DHIS2_routine_data_format", o)
                            /\ IF o = {}
                               THEN error_log' = error_log /\ TaskReturns("0")
                               ELSE /\ error_log' = error_log \o
                                          <<"Error executing the notebook", "Papermill Error">>
                                    /\ TaskRaises(CHOOSE e \in o : TRUE)
    /\ UNCHANGED snt_config
    /\ SntInputsUnchanged

\* A task of snt_dhis2_extract that only runs a notebook when its flag is
\* set: lines 262-283 and 295-313.
RunsNotebookIf(flag, nb) ==
    IF ~flag
    THEN TaskReturns("0") /\ UNCHANGED <<executed, error_log>>
    ELSE \E o \in NotebookOutcomes :
            /\ executed' = Executed(nb, o)
            /\ IF o = {}
               THEN error_log' = error_log /\ TaskReturns("0")
               ELSE /\ error_log' = error_log \o
                          <<"Error executing the notebook", "Papermill Error">>
                    /\ TaskRaises(CHOOSE e \in o : TRUE)

\* get_dhis2_population_and_format, lines 215-249.
GetDhis2PopulationAndFormat ==
    /\ TaskIs("snt-dhis2-extract", "get_dhis2_population_and_format")
    /\ IF sparams.population_extract /\ PeriodMissing
       THEN /\ error_log' = Append(error_log,
                  "Empty period input start-end. Please provide a period to retrieve the population data.")
            /\ TaskRaises("RuntimeError: No active exception to reraise")
            /\ UNCHANGED executed
       ELSE RunsNotebookIf(sparams.population_extract, "DHIS2_population_extraction_format")
    /\ UNCHANGED <<dhis2_requests, snt_config>>
    /\ UNCHANGED file_outputs
    /\ SntInputsUnchanged

\* get_dhis2_shapes_and_format, lines 254-283.
GetDhis2ShapesAndFormat ==
    /\ TaskIs("snt-dhis2-extract", "get_dhis2_shapes_and_format")
    /\ RunsNotebookIf(sparams.shapes_extract, "DHIS2_shapes_extract_format")
    /\ UNCHANGED <<dhis2_requests, snt_config>>
    /\ UNCHANGED file_outputs
    /\ SntInputsUnchanged

\* get_dhis2_pyramid, lines 288-313.
GetDhis2Pyramid ==
    /\ TaskIs("snt-dhis2-extract", "get_dhis2_pyramid")
    /\ RunsNotebookIf(sparams.pyramid_data, "DHIS2_pyramid_extraction")
    /\ UNCHANGED <<dhis2_requests, snt_config>>
    /\ UNCHANGED file_outputs
    /\ SntInputsUnchanged

(***************************************************************************)
(* enrich applied to a dataframe whose ids may be absent from the          *)
(* metadata.  A metadata table is a sequence of rows [id, name] with       *)
(* distinct ids; a null is the string "null".                              *)
(***************************************************************************)
\* r with one more column.
WithColumn(r, c, v) == [x \in DOMAIN r \cup {c} |-> IF x = c THEN v ELSE r[x]]

\* The rows of other whose id is the value of left_on in r.
Matches(r, other, left_on) == SelectSeq(other, LAMBDA o : o.id = r[left_on])

\* join(how="inner"): a row without a match is dropped.
InnerJoin(df, other, left_on, name) ==
    Flatten([i \in DOMAIN df |->
        LET ms == Matches(df[i], other, left_on)
        IN  [j \in DOMAIN ms |-> WithColumn(df[i], name, ms[j].name)]])

\* data.join(other, left_on=left_on, right_on="id", how="left"), lines 294-304:
\* one output row for each match of a row, and a row without a match once,
\* with null in the joined column.
LeftJoin(df, other, left_on, name) ==
    Flatten([i \in DOMAIN df |->
        LET ms == Matches(df[i], other, left_on)
        IN  IF ms = <<>> THEN <<WithColumn(df[i], name, "null")>>
            ELSE [j \in DOMAIN ms |-> WithColumn(df[i], name, ms[j].name)]])

\* enrich, lines 283-308.
enrich(org_units, data_elements_meta, df) ==
    LeftJoin(LeftJoin(df, org_units, "organisation_unit_id", "organisation_unit_name"),
             data_elements_meta, "data_element_id", "data_element_name")

\* The i-th data value of a dataframe, of data element de at org unit ou.
EnrichInput(i, de, ou) ==
    [DataValue(14, 30 * TicksPerDay, i) EXCEPT !.data_element_id = de,
                                               !.organisation_unit_id = ou]

EnrichIdle ==
    /\ edata = <<>> /\ eorg_units = <<>> /\ edata_elements = <<>> /\ enriched = <<>>
    /\ epc = "off"

\* enrich is about to be called; the source knows de1 (and de2) and ou1 at
\* most, the data may be of deX and ouX as well.
EnrichInit ==
    /\ \E n \in 0..MaxEnrichRows :
          \E ids \in [1..n -> {"de1", "deX"} \X {"ou1", "ouX"}] :
             edata = [i \in 1..n |-> EnrichInput(i, ids[i][1], ids[i][2])]
    /\ eorg_units \in {<<>>, <<[id |-> "ou1", name |-> "Org unit 1"]>>}
    /\ edata_elements \in
          {<<>>, <<[id |-> "de1", name |-> "Data element 1"]>>,
           <<[id |-> "de2", name |-> "Data element 2"],
             [id |-> "de1", name |-> "Data element 1"]>>}
    /\ enriched = <<>> /\ epc = "enrich"

EnrichCall ==
    /\ epc = "enrich"
    /\ enriched' = enrich(eorg_units, edata_elements, edata)
    /\ epc' = "done"
    /\ UNCHANGED <<edata, eorg_units, edata_elements>>

(***************************************************************************)
(* endos_redop_completeness: successive runs of sync against a destination *)
(* that stores what it accepts.                                            *)
(*                                                                         *)
(* The ENDOS completeness rows are the same in every run.  A REDOP data    *)
(* value is [dataElement, period, orgUnit, value, lastUpdated], its value  *)
(* the string DHIS2 returns, lastUpdated a day number.                     *)
(***************************************************************************)
\* The columns of row r named in subset.
SubsetKey(r, subset) == [k \in DOMAIN subset |-> r[subset[k]]]

\* The rows of df at the indices of keep, in the order of df.
RowsAt(df, keep) ==
    LET nth(k) == CHOOSE i \in keep : Cardinality({j \in keep : j < i}) = k - 1
    IN  [k \in 1..Cardinality(keep) |-> df[nth(k)]]

\* df.unique(subset=subset, keep="first", maintain_order=True)
UniqueKeepingFirst(df, subset) ==
    RowsAt(df, {i \in DOMAIN df :
                  \A j \in DOMAIN df :
                      j < i => SubsetKey(df[j], subset) # SubsetKey(df[i], subset)})

\* df.unique(subset=subset, keep="last", maintain_order=True)
UniqueKeepingLast(df, subset) ==
    RowsAt(df, {i \in DOMAIN df :
                  \A j \in DOMAIN df :
                      j > i => SubsetKey(df[j], subset) # SubsetKey(df[i], subset)})

\* The columns of a REDOP data value.
RedopColumns == {"dataElement", "period", "orgUnit", "value", "lastUpdated"}

\* sync_redop_dataset, line 260.
RedopSubset == <<"dataElement", "period", "orgUnit">>

\* str(n) for n >= 0, as its decimal digits.
RECURSIVE Digits(_)
Digits(n) == IF n < 10 THEN <<n>> ELSE Digits(n \div 10) \o <<n % 10>>

\* The rows of a set of data values, in the order the destination returns
\* them.
RECURSIVE DataValuesOf(_)
DataValuesOf(S) ==
    IF S = {} THEN <<>>
    ELSE LET r == CHOOSE x \in S : TRUE IN <<r>> \o DataValuesOf(S \ {r})

\* con.data_value_sets.get(datasets, last_updated=...): the data values of
\* the destination updated on that day or later.
RedopGet(dest, since) == DataValuesOf({r \in dest : r.lastUpdated >= since})

\* old["lastUpdated"].max() raises on a file without rows.
SyncLastUpdatedRaises(f) == f.exists /\ f.rows = <<>>

\* sync_redop_dataset, lines 245-249: the day of the latest lastUpdated of
\* the file, or 2020-01-01.
SyncLastUpdated(f) ==
    IF ~f.exists THEN 0
    ELSE CHOOSE t \in {r.lastUpdated : r \in Range(f.rows)} :
            \A r \in Range(f.rows) : r.lastUpdated <= t

\* Lines 176-181 and 257-261: pl.concat([old, new]) and unique on subset,
\* when dst_file exists; new otherwise.
concat_unique(f, fetched, subset) ==
    IF f.exists THEN UniqueKeepingLast(f.rows \o fetched, subset) ELSE fetched

\* sync_redop_dataset, lines 251-263: the dataframe written to dst_file.
sync_redop_dataset(dest, f) ==
    concat_unique(f, RedopGet(dest, SyncLastUpdated(f)), RedopSubset)

\* importStrategy CREATE_AND_UPDATE: the destination after it stored the
\* data values of a request on day clock.
Stored(dest, dataValues, clock) ==
    LET keys == {SubsetKey(dv, RedopSubset) : dv \in Range(dataValues)}
        last(key) == CHOOSE i \in DOMAIN dataValues :
                        /\ SubsetKey(dataValues[i], RedopSubset) = key
                        /\ \A j \in DOMAIN dataValues :
                              SubsetKey(dataValues[j], RedopSubset) = key => j <= i
    IN  {r \in dest : SubsetKey(r, RedopSubset) \notin keys}
          \cup {[dataElement |-> dataValues[last(key)].dataElement,
                 period |-> dataValues[last(key)].period,
                 orgUnit |-> dataValues[last(key)].orgUnit,
                 value |-> {Digits(dataValues[last(key)].value)},
                 lastUpdated |-> clock] : key \in keys}

\* What the destination can hold before the first run: for each data
\* element nothing, or a value of district ouA for 202401 updated on day 0.
InitialDestinations ==
    {{[dataElement |-> MetricDataElement[n], period |-> "202401", orgUnit |-> "ouA",
       value |-> {held[n]}, lastUpdated |-> 0] : n \in {m \in Range(MetricNames) : held[m] # <<>>}}
        : held \in [Range(MetricNames) -> {<<>>, <<3>>, <<0, 3>>}]}

SyncIdle ==
    /\ sync_endos = <<>> /\ redop_dest = {} /\ redop_file = NoFile /\ sync_clock = 0
    /\ sync_runs = 0 /\ syncpc = "off" /\ sync_payload = {} /\ sync_sent = <<>>
    /\ sync_prev = {}

\* The frames transform_endos_completeness returns: its pivot leaves one row
\* for each period and org unit.
EndosFrames ==
    {df \in SeqUpTo(EndosRows \cup {[r EXCEPT !.ou_id = "ouB"] : r \in EndosRows},
                    MaxSyncRows) :
        \A i, j \in DOMAIN df :
            (df[i].period = df[j].period /\ df[i].ou_id = df[j].ou_id) => i = j}

\* Before the first run: redop.parquet is absent, or holds what the
\* destination holds.
SyncInit ==
    /\ sync_endos \in EndosFrames
    /\ redop_dest \in InitialDestinations
    /\ redop_file \in {NoFile, FileOf(RedopColumns, DataValuesOf(redop_dest))}
    /\ sync_clock = 0 /\ sync_runs = 0 /\ syncpc = "idle"
    /\ sync_payload = {} /\ sync_sent = <<>> /\ sync_prev = {}

\* A run starts, on the day of the previous one or on the next day.
SyncStart ==
    /\ syncpc \in {"idle", "done", "stale", "failed"} /\ sync_runs < MaxSyncRuns
    /\ sync_runs' = sync_runs + 1
    /\ sync_clock' \in {sync_clock, sync_clock + 1}
    /\ sync_prev' = IF syncpc = "done"
                    THEN {[payload |-> TheValue(sync_payload), stored |-> TRUE]}
                    ELSE IF syncpc = "stale"
                    THEN {[payload |-> TheValue(sync_payload), stored |-> FALSE]}
                    ELSE {}
    /\ sync_payload' = {} /\ sync_sent' = <<>>
    /\ syncpc' = "redop"
    /\ UNCHANGED <<sync_endos, redop_dest, redop_file>>

\* sync, lines 66-67: sync_redop_dataset(con=redop, dst_file=fp).
SyncRedopDataset ==
    /\ syncpc = "redop"
    /\ IF SyncLastUpdatedRaises(redop_file)
       THEN syncpc' = "failed" /\ UNCHANGED redop_file
       ELSE /\ redop_file' = FileOf(RedopColumns, sync_redop_dataset(redop_dest, redop_file))
            /\ syncpc' = "payload"
    /\ UNCHANGED <<sync_endos, redop_dest, sync_clock, sync_runs, sync_payload, sync_sent,
                   sync_prev>>

\* sync, lines 69-74: build_payload on the completeness rows and the file.
SyncBuildPayload ==
    /\ syncpc = "payload"
    /\ sync_payload' = {build_payload(sync_endos, redop_file.rows)}
    /\ syncpc' = "post"
    /\ UNCHANGED <<sync_endos, redop_dest, redop_file, sync_clock, sync_runs, sync_sent,
                   sync_prev>>

\* sync, line 76: post; the destination stores the data values.
SyncPost ==
    /\ syncpc = "post"
    /\ sync_sent' = Flatten(chunkify(TheValue(sync_payload), BatchSize))
    /\ redop_dest' = Stored(redop_dest, TheValue(sync_payload), sync_clock)
    /\ syncpc' = "done"
    /\ UNCHANGED <<sync_endos, redop_file, sync_clock, sync_runs, sync_payload, sync_prev>>

\* sync, line 76: post; the destination answers without storing anything,
\* which post does not see.
SyncPostNotStored ==
    /\ syncpc = "post" /\ TheValue(sync_payload) # <<>>
    /\ sync_sent' = Flatten(chunkify(TheValue(sync_payload), BatchSize))
    /\ syncpc' = "stale"
    /\ UNCHANGED <<sync_endos, redop_dest, redop_file, sync_clock, sync_runs, sync_payload,
                   sync_prev>>

(***************************************************************************)
(* run_notebook of the snt pipelines: the output notebook path.            *)
(*                                                                         *)
(* The clock counts half seconds; a path is the directory, the notebook    *)
(* name and the timestamp of its file name.                                *)
(***************************************************************************)
HalfSecondsPerSecond == 2

\* datetime.utcnow().strftime("%Y-%m-%d_%H%M%S"): the time, to the second.
ExecutionTimestamp(utcnow) == utcnow \div HalfSecondsPerSecond

\* os.path.join(out_nb_path, f"{nb_name}_OUTPUT_{execution_timestamp}.ipynb")
OutNbFullPath(nb_name, out_nb_path, utcnow) ==
    <<out_nb_path, nb_name, "_OUTPUT_", ExecutionTimestamp(utcnow), ".ipynb">>

NbIdle == nb_now = 0 /\ nb_outputs = <<>> /\ nbpc = "off"

NbInit == nb_now = 0 /\ nb_outputs = <<>> /\ nbpc = "on"

\* Time passes.
NbTick ==
    /\ nbpc = "on" /\ nb_now < MaxHalfSeconds
    /\ nb_now' = nb_now + 1
    /\ UNCHANGED <<nb_outputs, nbpc>>

\* run_notebook is called, by this run or by another run of the workspace.
RunNotebook(nb_name, out_nb_path) ==
    /\ nbpc = "on" /\ Len(nb_outputs) < MaxExecutions
    /\ nb_outputs' = Append(nb_outputs,
          [nb_name |-> nb_name, out_nb_path |-> out_nb_path, utcnow |-> nb_now,
           out_nb_full_path |-> OutNbFullPath(nb_name, out_nb_path, nb_now)])
    /\ UNCHANGED <<nb_now, nbpc>>

(***************************************************************************)
(* get_endos_completeness and sync_redop_dataset: the merge of the prior   *)
(* file with the newly fetched rows.  The merge is reached with a file     *)
(* that has rows (the latest period, or lastUpdated, is read from it) and  *)
(* with fetched rows.                                                      *)
(***************************************************************************)
\* get_endos_completeness, line 179.
EndosSubset == <<"dx", "ou", "pe">>

\* Rows of endos.parquet and of the analytics request.
EndosFileRows ==
    {[dx |-> "qN9EEmzUcJn.ACTUAL_REPORTS", ou |-> ou, pe |-> pe, value |-> v]
        : ou \in {"ouA"}, pe \in {"202401", "202402"}, v \in {"3", "4"}}

\* Rows of redop.parquet and of the data value sets request.
RedopFileRows ==
    {[dataElement |-> "Ae9s1MsUEYq", period |-> "202401", orgUnit |-> ou, value |-> {v},
      lastUpdated |-> 0] : ou \in {"ouA", "ouB"}, v \in {<<3>>, <<4>>}}

CuIdle == cu_subset = <<>> /\ cu_file = NoFile /\ cu_new = <<>> /\ cu_df = <<>> /\ cupc = "off"

CuInit ==
    /\ cu_subset \in {EndosSubset, RedopSubset}
    /\ \E rows \in {IF cu_subset = EndosSubset THEN EndosFileRows ELSE RedopFileRows} :
          /\ cu_file \in {NoFile} \cup
                {FileOf(DOMAIN r[1], r) : r \in SeqUpTo(rows, MaxConcatRows) \ {<<>>}}
          /\ cu_new \in SeqUpTo(rows, MaxConcatRows) \ {<<>>}
    /\ cu_df = <<>> /\ cupc = "ready"

ConcatUnique ==
    /\ cupc = "ready"
    /\ cu_df' = concat_unique(cu_file, cu_new, cu_subset)
    /\ cupc' = "done"
    /\ UNCHANGED <<cu_subset, cu_file, cu_new>>

InitChunks == ChunkInit /\ MergeIdle /\ ExtractIdle /\ PayloadIdle /\ PostIdle /\ PushIdle /\ SntIdle /\ EnrichIdle /\ SyncIdle /\ NbIdle /\ CuIdle
NextChunks ==
    \/ ExtractChunked /\ UNCHANGED <<mergeVars, extractVars, payloadVars, postVars, pushVars, sntVars, enrichVars, syncVars, nbVars, cuVars>>
    \/ ExtractSingle /\ UNCHANGED <<mergeVars, extractVars, payloadVars, postVars, pushVars, sntVars, enrichVars, syncVars, nbVars, cuVars>>
SpecChunks == InitChunks /\ [][NextChunks]_vars

InitExtract == ExtractInit /\ MergeIdle /\ ChunkIdle /\ PayloadIdle /\ PostIdle /\ PushIdle /\ SntIdle /\ EnrichIdle /\ SyncIdle /\ NbIdle /\ CuIdle
NextExtract ==
    \/ Advance /\ UNCHANGED <<mergeVars, chunkVars, payloadVars, postVars, pushVars, sntVars, enrichVars, syncVars, nbVars, cuVars>>
    \/ SourceWrite /\ UNCHANGED <<mergeVars, chunkVars, payloadVars, postVars, pushVars, sntVars, enrichVars, syncVars, nbVars, cuVars>>
    \/ StartRun /\ UNCHANGED <<mergeVars, chunkVars, payloadVars, postVars, pushVars, sntVars, enrichVars, syncVars, nbVars, cuVars>>
    \/ FilterDataElements /\ UNCHANGED <<mergeVars, chunkVars, payloadVars, postVars, pushVars, sntVars, enrichVars, syncVars, nbVars, cuVars>>
    \/ MetadataFails /\ UNCHANGED <<mergeVars, chunkVars, payloadVars, postVars, pushVars, sntVars, enrichVars, syncVars, nbVars, cuVars>>
    \/ ExtractBegin /\ UNCHANGED <<mergeVars, chunkVars, payloadVars, postVars, pushVars, sntVars, enrichVars, syncVars, nbVars, cuVars>>
    \/ Fetch /\ UNCHANGED <<mergeVars, chunkVars, payloadVars, postVars, pushVars, sntVars, enrichVars, syncVars, nbVars, cuVars>>
    \/ FetchFails /\ UNCHANGED <<mergeVars, chunkVars, payloadVars, postVars, pushVars, sntVars, enrichVars, syncVars, nbVars, cuVars>>
    \/ ExtractFinish /\ UNCHANGED <<mergeVars, chunkVars, payloadVars, postVars, pushVars, sntVars, enrichVars, syncVars, nbVars, cuVars>>
    \/ Enrich /\ UNCHANGED <<mergeVars, chunkVars, payloadVars, postVars, pushVars, sntVars, enrichVars, syncVars, nbVars, cuVars>>
    \/ Write /\ UNCHANGED <<mergeVars, chunkVars, payloadVars, postVars, pushVars, sntVars, enrichVars, syncVars, nbVars, cuVars>>
SpecExtract == InitExtract /\ [][NextExtract]_vars

(***************************************************************************)
(* Claims about monthly_chunks and chunked extraction (SpecChunks).        *)
(***************************************************************************)
ChunkedDone == "chunked" \in cpc
BothDone == cpc = {"chunked", "single"}

Occurrences(s, r) == Cardinality({i \in DOMAIN s : s[i] = r})

LastChunkEnd == chunks[Len(chunks)][2]

\* C5: monthly_chunks(start, end) yields first (start, start + 1 month); each
\* later chunk starts where the previous one ended and spans one month; the
\* sequence stops at the first chunk whose end is >= end, so no chunk but the
\* first starts at or after end.
C5_MonthlyChunksShape ==
    ChunkedDone =>
        /\ Len(chunks) >= 1
        /\ chunks[1] = <<cstart, AddOneMonth(cstart)>>
        /\ \A i \in 2..Len(chunks) :
              /\ chunks[i][1] = chunks[i - 1][2]
              /\ chunks[i][2] = AddOneMonth(chunks[i][1])
              /\ chunks[i][1] < cend
        /\ \A i \in 1..(Len(chunks) - 1) : chunks[i][2] < cend
        /\ LastChunkEnd >= cend

\* C5 witness: a start on the 31st of January (clamped to the 29th of
\* February 2020, then the 29th of March) that needed three chunks.
C5_Witness ==
    /\ ChunkedDone
    /\ ToDate(cstart \div TicksPerDay) = [y |-> 2020, m |-> 1, d |-> 31]
    /\ Len(chunks) = 3
    /\ ToDate(chunks[3][1] \div TicksPerDay) = [y |-> 2020, m |-> 3, d |-> 29]

InitMerge == MergeInit /\ ChunkIdle /\ ExtractIdle /\ PayloadIdle /\ PostIdle /\ PushIdle /\ SntIdle /\ EnrichIdle /\ SyncIdle /\ NbIdle /\ CuIdle
NextMerge == Merge /\ UNCHANGED <<chunkVars, extractVars, payloadVars, postVars, pushVars, sntVars, enrichVars, syncVars, nbVars, cuVars>>
SpecMerge == InitMerge /\ [][NextMerge]_vars

(***************************************************************************)
(* Claims about merge_data_values (SpecMerge).                             *)
(***************************************************************************)
\* C1: merge_data_values(old, new) holds exactly one record for each natural
\* key present in old or new, and that record's last_updated is the greatest
\* last_updated of the records of old and new with that key.
C1_MergeOnePerKeyMaxLastUpdated ==
    mpc = "done" =>
        /\ {NaturalKey(r) : r \in Range(merged)} = {NaturalKey(r) : r \in Range(old \o new)}
        /\ \A i, j \in DOMAIN merged :
              NaturalKey(merged[i]) = NaturalKey(merged[j]) => i = j
        /\ \A r \in Range(merged) :
              /\ r \in Range(old \o new)
              /\ \A c \in Range(old \o new) :
                    NaturalKey(c) = NaturalKey(r) => c.last_updated <= r.last_updated

\* C1 witness: old = [{key A, last_updated 1, value 5}], new = [{key A,
\* last_updated 2, value 7}] merged into the single record of value 7.
C1_Witness ==
    /\ mpc = "done"
    /\ Len(old) = 1 /\ Len(new) = 1 /\ Len(merged) = 1
    /\ NaturalKey(old[1]) = NaturalKey(new[1])
    /\ old[1].last_updated = 1 /\ old[1].value = 5
    /\ new[1].last_updated = 2 /\ new[1].value = 7
    /\ merged[1].value = 7

(***************************************************************************)
(* Claims about the runs of microstratification_extract (SpecExtract).     *)
(***************************************************************************)
KeysOf(rows) == {NaturalKey(r) : r \in Range(rows)}

\* Every request of the run has been answered; extract has not yet merged.
FetchesComplete == xpc = "fetch" /\ todo = <<>>

\* C2: after a successful run that started with an existing file, the file
\* holds every natural key of the previous file and of the fetched records.
C2_FileHoldsFullMerge ==
    (xpc = "done" /\ fileAtStart.exists) =>
        (KeysOf(fileAtStart.rows) \cup KeysOf(xnew)) \subseteq KeysOf(file.rows)

\* C3: the persisted record set never holds two records with the same
\* natural key.
C3_NoDuplicateKeysPersisted ==
    file.exists =>
        \A i, j \in DOMAIN file.rows :
            NaturalKey(file.rows[i]) = NaturalKey(file.rows[j]) => i = j

\* C4 as stated: the extractor fetches in monthly chunks exactly when there is
\* no prior file or the high-water mark is more than 180 days old, and else
\* fetches [start, end] with a single call.
C4_ChunkedIffOlderThan180Days ==
    FetchesComplete =>
        IF \/ ~fileAtStart.exists
           \/ \E r \in Range(fileAtStart.rows) :
                /\ \A q \in Range(fileAtStart.rows) : q.last_updated <= r.last_updated
                /\ now - r.last_updated > 180 * TicksPerDay
        THEN fetches = monthly_chunks(start_date, end_date)
        ELSE fetches = <<<<start_date, end_date>>>>

\* C4 amended: the extractor fetches in monthly chunks exactly when there is
\* no prior file or the high-water mark is at least 180 days old, and else
\* (a high-water mark less than 180 days old) fetches [start, end] with a
\* single call.
C4_ChunkedIffAtLeast180Days ==
    FetchesComplete =>
        IF \/ ~fileAtStart.exists
           \/ \E r \in Range(fileAtStart.rows) :
                /\ \A q \in Range(fileAtStart.rows) : q.last_updated <= r.last_updated
                /\ now - r.last_updated >= 180 * TicksPerDay
        THEN fetches = monthly_chunks(start_date, end_date)
        ELSE fetches = <<<<start_date, end_date>>>>

\* C4 witness: a run that found a file whose high-water mark was between 180
\* and 181 days old and fetched several monthly chunks.
C4_Witness ==
    /\ FetchesComplete
    /\ fileAtStart.exists
    /\ \E t \in last_updated :
          /\ now - t >= 180 * TicksPerDay
          /\ now - t < 181 * TicksPerDay
    /\ Len(fetches) >= 2
    /\ fetches = monthly_chunks(start_date, end_date)

InitPayload == PayloadInit /\ MergeIdle /\ ChunkIdle /\ ExtractIdle /\ PostIdle /\ PushIdle /\ SntIdle /\ EnrichIdle /\ SyncIdle /\ NbIdle /\ CuIdle
NextPayload == BuildPayload /\ UNCHANGED <<mergeVars, chunkVars, extractVars, postVars, pushVars, sntVars, enrichVars, syncVars, nbVars, cuVars>>
SpecPayload == InitPayload /\ [][NextPayload]_vars

(***************************************************************************)
(* Claims about build_payload (SpecPayload).                               *)
(***************************************************************************)
\* The REDOP records of the key of a data value.
RedopRecordsOf(dv) ==
    {d \in Range(redop_data) :
        d.dataElement = dv.dataElement /\ d.period = dv.period /\ d.orgUnit = dv.orgUnit}

\* The data values ENDOS has: one per row and metric with a value.
EndosDataValues ==
    {[dataElement |-> MetricDataElement[n], period |-> endos_data[i].period,
      orgUnit |-> endos_data[i].ou_id, value |-> TheValue(endos_data[i][n])]
        : <<i, n>> \in {x \in (DOMAIN endos_data) \X Range(MetricNames) :
                            endos_data[x[1]][x[2]] # {}}}

\* C7: build_payload emits no record whose (data element, period, org unit)
\* has a non-null destination value equal, as an integer, to the source value.
C7_PayloadOnlyNewOrChanged ==
    ppc = "done" =>
        \A k \in DOMAIN payload :
            /\ payload[k] \in EndosDataValues
            /\ \A d \in RedopRecordsOf(payload[k]) :
                 d.value = {} \/ ParseInt(TheValue(d.value)) # payload[k].value

\* C7 witness: the destination holds "03" for a key whose source value is 3,
\* the record is not emitted while another one is.
C7_Witness ==
    /\ ppc = "done"
    /\ \E dv \in EndosDataValues :
         /\ dv.value = 3
         /\ \E d \in RedopRecordsOf(dv) : d.value = {<<0, 3>>}
         /\ dv \notin Range(payload)
    /\ payload # <<>>

\* C8: a source value whose key has no destination record, or only records of
\* null or different value, is in the payload with the source value.
C8_PayloadHoldsAbsentNullOrChanged ==
    ppc = "done" =>
        \A dv \in EndosDataValues :
            (\A d \in RedopRecordsOf(dv) :
                d.value = {} \/ ParseInt(TheValue(d.value)) # dv.value)
            => dv \in Range(payload)

\* C8 witness: the destination holds a null value for a key whose source
\* value is 3, and the payload holds the key with value 3; a source value 0
\* without destination record is in the payload too.
C8_Witness ==
    /\ ppc = "done"
    /\ \E dv \in EndosDataValues :
         /\ dv.value = 3
         /\ RedopRecordsOf(dv) # {}
         /\ \A d \in RedopRecordsOf(dv) : d.value = {}
         /\ dv \in Range(payload)
    /\ \E dv \in EndosDataValues :
         dv.value = 0 /\ RedopRecordsOf(dv) = {} /\ dv \in Range(payload)

InitPost == PostInit /\ MergeIdle /\ ChunkIdle /\ ExtractIdle /\ PayloadIdle /\ PushIdle /\ SntIdle /\ EnrichIdle /\ SyncIdle /\ NbIdle /\ CuIdle
NextPost ==
    \/ PostChunk /\ UNCHANGED <<mergeVars, chunkVars, extractVars, payloadVars, pushVars, sntVars, enrichVars, syncVars, nbVars, cuVars>>
    \/ PostReturn /\ UNCHANGED <<mergeVars, chunkVars, extractVars, payloadVars, pushVars, sntVars, enrichVars, syncVars, nbVars, cuVars>>
SpecPost == InitPost /\ [][NextPost]_vars

(***************************************************************************)
(* Claims about the pusher of endos_redop_completeness (SpecPost).         *)
(***************************************************************************)
\* C9: a payload of L records is submitted as ceil(L / 1000) calls in order,
\* each of at most 1000 records, all but the last of exactly 1000, whose
\* concatenation is the payload.
C9_PostBatches ==
    postpc = "done" =>
        /\ Len(sent) * BatchSize >= Len(post_payload)
        /\ (Len(sent) - 1) * BatchSize < Len(post_payload)
        /\ \A k \in DOMAIN sent :
             /\ Len(sent[k]) >= 1
             /\ Len(sent[k]) <= BatchSize
             /\ k < Len(sent) => Len(sent[k]) = BatchSize
        /\ Flatten(sent) = post_payload

\* C9 witness: 2500 records posted as calls of 1000, 1000 and 500 records.
C9_Witness ==
    /\ postpc = "done"
    /\ Len(post_payload) = 2500
    /\ Len(sent) = 3
    /\ Len(sent[1]) = 1000 /\ Len(sent[2]) = 1000 /\ Len(sent[3]) = 500

\* C10: a push that completes returns the field-wise sums of the importCount
\* of every batch it submitted (all zeros without batch).
C10_PushReturnsSummedCounts ==
    postpc = "done" =>
        post_result =
            {merge_import_counts([k \in DOMAIN summaries |-> summaries[k].importCount])}

\* C11: when the destination answers batch k of a push with a status other
\* than success, the push raises an import error and no batch after k is sent.
C11_NonSuccessAbortsPush ==
    \A k \in DOMAIN summaries :
        summaries[k].status # "SUCCESS" => Len(sent) = k /\ postpc = "failed"

(***************************************************************************)
(* Runs of the pipelines that push to the destination DHIS2 (SpecPush).    *)
(***************************************************************************)
InitPush == PushInit /\ MergeIdle /\ ChunkIdle /\ ExtractIdle /\ PayloadIdle /\ PostIdle /\ SntIdle /\ EnrichIdle /\ SyncIdle /\ NbIdle /\ CuIdle
NextPush ==
    \/ ClimateConnectFails /\ UNCHANGED <<mergeVars, chunkVars, extractVars, payloadVars, postVars, sntVars, enrichVars, syncVars, nbVars, cuVars>>
    \/ ClimateRegister /\ UNCHANGED <<mergeVars, chunkVars, extractVars, payloadVars, postVars, sntVars, enrichVars, syncVars, nbVars, cuVars>>
    \/ \E v \in Pushed :
          PrepareDataValues(v) /\ UNCHANGED <<mergeVars, chunkVars, extractVars, payloadVars, postVars, sntVars, enrichVars, syncVars, nbVars, cuVars>>
    \/ \E v \in Pushed :
          PushDryRunPost(v) /\ UNCHANGED <<mergeVars, chunkVars, extractVars, payloadVars, postVars, sntVars, enrichVars, syncVars, nbVars, cuVars>>
    \/ \E v \in Pushed :
          PushDryRunReturn(v) /\ UNCHANGED <<mergeVars, chunkVars, extractVars, payloadVars, postVars, sntVars, enrichVars, syncVars, nbVars, cuVars>>
    \/ \E v \in Pushed :
          PushPost(v) /\ UNCHANGED <<mergeVars, chunkVars, extractVars, payloadVars, postVars, sntVars, enrichVars, syncVars, nbVars, cuVars>>
    \/ \E v \in Pushed :
          PushReturn(v) /\ UNCHANGED <<mergeVars, chunkVars, extractVars, payloadVars, postVars, sntVars, enrichVars, syncVars, nbVars, cuVars>>
    \/ ClimateDone /\ UNCHANGED <<mergeVars, chunkVars, extractVars, payloadVars, postVars, sntVars, enrichVars, syncVars, nbVars, cuVars>>
    \/ FindData /\ UNCHANGED <<mergeVars, chunkVars, extractVars, payloadVars, postVars, sntVars, enrichVars, syncVars, nbVars, cuVars>>
    \/ PushOrgUnits /\ UNCHANGED <<mergeVars, chunkVars, extractVars, payloadVars, postVars, sntVars, enrichVars, syncVars, nbVars, cuVars>>
    \/ PushTransformFails /\ UNCHANGED <<mergeVars, chunkVars, extractVars, payloadVars, postVars, sntVars, enrichVars, syncVars, nbVars, cuVars>>
    \/ PushPostFails /\ UNCHANGED <<mergeVars, chunkVars, extractVars, payloadVars, postVars, sntVars, enrichVars, syncVars, nbVars, cuVars>>
    \/ PushFile /\ UNCHANGED <<mergeVars, chunkVars, extractVars, payloadVars, postVars, sntVars, enrichVars, syncVars, nbVars, cuVars>>
    \/ PushFilesReturn /\ UNCHANGED <<mergeVars, chunkVars, extractVars, payloadVars, postVars, sntVars, enrichVars, syncVars, nbVars, cuVars>>
SpecPush == InitPush /\ [][NextPush]_vars

\* The dry-run push of variable v returned: every org unit was posted and
\* answered with success.
DryRunSucceeded(v) ==
    /\ ctask[v].dry = "done"
    /\ Len(ctask[v].dry_log) = ctask[v].data_values
    /\ \A k \in DOMAIN ctask[v].dry_log : RaisedBy(ctask[v].dry_log[k]) = {}

\* The persisting push of variable v has started.
PushStarted(v) == ctask[v].push_log # <<>> \/ ctask[v].push \in {"done", "failed"}

\* push_data_values of push_climate_data_auto stops at the first answer that
\* is not a success, and raises what RaisedBy says.
PushDataValuesStopsAtRejection ==
    \A v \in DOMAIN ctask :
        /\ \A k \in DOMAIN ctask[v].dry_log :
              RaisedBy(ctask[v].dry_log[k]) # {} =>
                  /\ k = Len(ctask[v].dry_log)
                  /\ crun = "failed" /\ cerror = RaisedBy(ctask[v].dry_log[k])
        /\ \A k \in DOMAIN ctask[v].push_log :
              RaisedBy(ctask[v].push_log[k]) # {} =>
                  /\ k = Len(ctask[v].push_log)
                  /\ crun = "failed" /\ cerror = RaisedBy(ctask[v].push_log[k])

\* C12: with the dry-run parameter set (dry_run_only of push-climate-data-auto,
\* dry_run of push-tloh and push-tloh-completeness), no request with
\* dryRun false is sent at any point of the run.
C12_DryRunNeverPersists ==
    dry_run => \A r \in requests : r.dryRun

\* C12 witness: a run of push-climate-data-auto with dry_run_only that ended
\* after posting the org units of every variable.
C12_Witness ==
    /\ dry_run /\ crun = "done"
    /\ \A v \in Pushed : ctask[v].data_values >= 1 /\ DryRunSucceeded(v)
    /\ requests # {}

C14_FileErrorsAreIsolated ==
    /\ tdone # <<>> => tpc # "failed"
    /\ tpc = "done" => Len(tdone) = Len(tdata)
    /\ \A i \in DOMAIN tdone : tdone[i] # "pushed" => tdata[i] \in Range(twarnings)

\* C14 witness: three files; transform raised on the first and the post of
\* the second raised; the third was pushed and push returned.
C14_Witness ==
    /\ tpc = "done"
    /\ tdone = <<"transform_error", "post_error", "pushed">>
    /\ twarnings = <<1, 2>>

\* extract, lines 200-232: the ranges this run asks the source for, in order.
ExtractPlan ==
    IF chunked THEN monthly_chunks(start_date, end_date) ELSE <<<<start_date, end_date>>>>

\* C19: the requests of a run are the first ranges of its plan, each sent
\* once and in order; every request but the last one returned its data; a
\* request that failed is the last one of the run, which ends with the
\* error; a run that goes on after extract has requested every range.
C19_EachChunkFetchedOnce ==
    /\ Len(fetches) <= Len(ExtractPlan)
    /\ fetches = SubSeq(ExtractPlan, 1, Len(fetches))
    /\ Len(fetches) \in {Len(data), Len(data) + 1}
    /\ Len(fetches) = Len(data) + 1 => xpc = "failed"
    /\ xpc \in {"enrich", "write", "done"} => Len(fetches) = Len(ExtractPlan)

\* A chunked run whose second request failed, with ranges left to request.
C19_Witness ==
    /\ chunked /\ xpc = "failed"
    /\ Len(data) = 1 /\ Len(fetches) = 2 /\ Len(todo) >= 2

(***************************************************************************)
(* Runs of the pipelines that execute notebooks.                           *)
(***************************************************************************)
InitSnt == SntInit /\ MergeIdle /\ ChunkIdle /\ ExtractIdle /\ PayloadIdle /\ PostIdle /\ PushIdle /\ EnrichIdle /\ SyncIdle /\ NbIdle /\ CuIdle
NextSnt ==
    \/ RiskFunction
       /\ UNCHANGED <<mergeVars, chunkVars, extractVars, payloadVars, postVars, pushVars, enrichVars, syncVars, nbVars, cuVars>>
    \/ RunIncidenceNotebook
       /\ UNCHANGED <<mergeVars, chunkVars, extractVars, payloadVars, postVars, pushVars, enrichVars, syncVars, nbVars, cuVars>>
    \/ RunPrevalenceMortality
       /\ UNCHANGED <<mergeVars, chunkVars, extractVars, payloadVars, postVars, pushVars, enrichVars, syncVars, nbVars, cuVars>>
    \/ CleaningFunction
       /\ UNCHANGED <<mergeVars, chunkVars, extractVars, payloadVars, postVars, pushVars, enrichVars, syncVars, nbVars, cuVars>>
    \/ CleaningRunOutliers
       /\ UNCHANGED <<mergeVars, chunkVars, extractVars, payloadVars, postVars, pushVars, enrichVars, syncVars, nbVars, cuVars>>
    \/ CleaningRunImputation
       /\ UNCHANGED <<mergeVars, chunkVars, extractVars, payloadVars, postVars, pushVars, enrichVars, syncVars, nbVars, cuVars>>
    \/ OutliersFunction
       /\ UNCHANGED <<mergeVars, chunkVars, extractVars, payloadVars, postVars, pushVars, enrichVars, syncVars, nbVars, cuVars>>
    \/ OutliersRunOutliers
       /\ UNCHANGED <<mergeVars, chunkVars, extractVars, payloadVars, postVars, pushVars, enrichVars, syncVars, nbVars, cuVars>>
    \/ ImputationFunction
       /\ UNCHANGED <<mergeVars, chunkVars, extractVars, payloadVars, postVars, pushVars, enrichVars, syncVars, nbVars, cuVars>>
    \/ ImputationRunImputation
       /\ UNCHANGED <<mergeVars, chunkVars, extractVars, payloadVars, postVars, pushVars, enrichVars, syncVars, nbVars, cuVars>>
    \/ DhsFunction
       /\ UNCHANGED <<mergeVars, chunkVars, extractVars, payloadVars, postVars, pushVars, enrichVars, syncVars, nbVars, cuVars>>
    \/ DhsRunNotebook
       /\ UNCHANGED <<mergeVars, chunkVars, extractVars, payloadVars, postVars, pushVars, enrichVars, syncVars, nbVars, cuVars>>
    \/ Dhis2ExtractFunction
       /\ UNCHANGED <<mergeVars, chunkVars, extractVars, payloadVars, postVars, pushVars, enrichVars, syncVars, nbVars, cuVars>>
    \/ LoadConfigurationSNT
       /\ UNCHANGED <<mergeVars, chunkVars, extractVars, payloadVars, postVars, pushVars, enrichVars, syncVars, nbVars, cuVars>>
    \/ GetDhis2AnalyticsAndFormat
       /\ UNCHANGED <<mergeVars, chunkVars, extractVars, payloadVars, postVars, pushVars, enrichVars, syncVars, nbVars, cuVars>>
    \/ GetDhis2PopulationAndFormat
       /\ UNCHANGED <<mergeVars, chunkVars, extractVars, payloadVars, postVars, pushVars, enrichVars, syncVars, nbVars, cuVars>>
    \/ GetDhis2ShapesAndFormat
       /\ UNCHANGED <<mergeVars, chunkVars, extractVars, payloadVars, postVars, pushVars, enrichVars, syncVars, nbVars, cuVars>>
    \/ GetDhis2Pyramid
       /\ UNCHANGED <<mergeVars, chunkVars, extractVars, payloadVars, postVars, pushVars, enrichVars, syncVars, nbVars, cuVars>>
    \/ BulletinFunction
       /\ UNCHANGED <<mergeVars, chunkVars, extractVars, payloadVars, postVars, pushVars, enrichVars, syncVars, nbVars, cuVars>>
    \/ BulletinRunNotebook
       /\ UNCHANGED <<mergeVars, chunkVars, extractVars, payloadVars, postVars, pushVars, enrichVars, syncVars, nbVars, cuVars>>
    \/ SntDone
       /\ UNCHANGED <<mergeVars, chunkVars, extractVars, payloadVars, postVars, pushVars, enrichVars, syncVars, nbVars, cuVars>>
SpecSnt == InitSnt /\ [][NextSnt]_vars

\* Some notebook the run executed ended with an execution error.
NotebookFailed == \E i \in DOMAIN executed : executed[i].error # {}

\* C15: in every pipeline that runs notebooks, a run in which a notebook
\* ended with an execution error never completes normally.
C15_NotebookErrorIsFatal == NotebookFailed => spc # "done"

\* SNT_config.json is missing or is not JSON.
ConfigUnreadable == senv.config \in {"missing", "invalid_json"}

\* C16: in snt-dhis2-extract, with a configuration file that is missing or
\* not JSON, no request is sent to DHIS2, no notebook is executed and the run
\* does not complete.
C16_BadConfigAbortsBeforeWork ==
    (snt_pipeline = "snt-dhis2-extract" /\ ConfigUnreadable)
        => dhis2_requests = 0 /\ executed = <<>> /\ spc # "done"

\* A run asked to download and to format, with its period and its output
\* directory, ended at the unreadable configuration.
C16_Witness ==
    /\ snt_pipeline = "snt-dhis2-extract" /\ ConfigUnreadable
    /\ sparams.download_analytics /\ sparams.format_routine /\ ~PeriodMissing
    /\ senv.output_dir
    /\ spc = "failed" /\ stodo # <<>> /\ Head(stodo) = "load_configuration_SNT"

\* C17: when load_configuration_SNT fails, current_run.log_error has been
\* given a message before the run ends with the error.
C17_ConfigFailureIsLogged ==
    (snt_pipeline = "snt-dhis2-extract" /\ ConfigUnreadable /\ spc = "failed")
        => error_log # <<>>

\* A step that needs the period is enabled and start or end is None.
PeriodNeededAndMissing ==
    /\ snt_pipeline = "snt-dhis2-extract"
    /\ sparams.download_analytics \/ sparams.population_extract
    /\ PeriodMissing

\* C18: with a readable and complete configuration, when a step that needs
\* the period is enabled and start or end is missing, no request is sent to
\* DHIS2, no notebook is executed, the run does not complete, and when it
\* has ended the missing period has been logged.
C18_MissingPeriodAbortsBeforeWork ==
    (PeriodNeededAndMissing /\ senv.config = "valid")
        => /\ dhis2_requests = 0 /\ executed = <<>> /\ spc # "done"
           /\ spc = "failed" => error_log # <<>>

(***************************************************************************)
(* enrich as a function of its dataframe and of the metadata.              *)
(***************************************************************************)
InitEnrich ==
    EnrichInit /\ MergeIdle /\ ChunkIdle /\ ExtractIdle /\ PayloadIdle /\ PostIdle /\ PushIdle /\ SntIdle /\ SyncIdle /\ NbIdle /\ CuIdle
NextEnrich ==
    EnrichCall
        /\ UNCHANGED <<mergeVars, chunkVars, extractVars, payloadVars, postVars, pushVars, sntVars, syncVars, nbVars, cuVars>>
SpecEnrich == InitEnrich /\ [][NextEnrich]_vars

\* The ids of a metadata table.
IdsOf(other) == {other[k].id : k \in DOMAIN other}

\* Output row out is input row r with its enrichment columns.
EnrichedFrom(out, r) == \A c \in RawColumns : out[c] = r[c]

\* C20: enrich returns as many rows as it was given, every input row is one
\* of them, and an output row whose org-unit id or data-element id is not in
\* the metadata has null in the matching name column.
C20_EnrichKeepsEveryRow ==
    epc = "done" =>
        /\ Len(enriched) = Len(edata)
        /\ \A i \in DOMAIN edata : \E j \in DOMAIN enriched : EnrichedFrom(enriched[j], edata[i])
        /\ \A j \in DOMAIN enriched :
              /\ enriched[j].organisation_unit_id \notin IdsOf(eorg_units)
                    => enriched[j].organisation_unit_name = "null"
              /\ enriched[j].data_element_id \notin IdsOf(edata_elements)
                    => enriched[j].data_element_name = "null"

\* enrich returned a dataframe with a row that matched both tables, and a
\* row that matched neither.
C20_Witness ==
    /\ epc = "done" /\ Len(edata) = 2
    /\ \E j \in DOMAIN enriched :
          enriched[j].organisation_unit_name = "null" /\ enriched[j].data_element_name = "null"
    /\ \E j \in DOMAIN enriched :
          enriched[j].organisation_unit_name # "null" /\ enriched[j].data_element_name # "null"

\* filter_data_elements has returned in this run.
Filtered == xpc \in {"extract", "fetch", "enrich", "write", "done"}

\* C21: what filter_data_elements returned is the requested ids that are in
\* the data element metadata of the instance: no id absent from the metadata,
\* and every id present in it.
C21_FilterKeepsOnlyKnownIds ==
    Filtered =>
        \A id \in Range(DATA_ELEMENTS) :
            id \in Range(data_elements) <=> id \in DOMAIN DataElementsMeta

(***************************************************************************)
(* Successive runs of sync of endos_redop_completeness.                    *)
(***************************************************************************)
InitSync ==
    SyncInit /\ MergeIdle /\ ChunkIdle /\ ExtractIdle /\ PayloadIdle /\ PostIdle /\ PushIdle /\ SntIdle /\ EnrichIdle /\ NbIdle /\ CuIdle
NextSync ==
    \/ SyncStart
       /\ UNCHANGED <<mergeVars, chunkVars, extractVars, payloadVars, postVars, pushVars, sntVars, enrichVars, nbVars, cuVars>>
    \/ SyncRedopDataset
       /\ UNCHANGED <<mergeVars, chunkVars, extractVars, payloadVars, postVars, pushVars, sntVars, enrichVars, nbVars, cuVars>>
    \/ SyncBuildPayload
       /\ UNCHANGED <<mergeVars, chunkVars, extractVars, payloadVars, postVars, pushVars, sntVars, enrichVars, nbVars, cuVars>>
    \/ SyncPost
       /\ UNCHANGED <<mergeVars, chunkVars, extractVars, payloadVars, postVars, pushVars, sntVars, enrichVars, nbVars, cuVars>>
    \/ SyncPostNotStored
       /\ UNCHANGED <<mergeVars, chunkVars, extractVars, payloadVars, postVars, pushVars, sntVars, enrichVars, nbVars, cuVars>>
SpecSync == InitSync /\ [][NextSync]_vars

\* The previous run posted its payload and the destination stored it.
PreviousPushStored == sync_prev # {} /\ TheValue(sync_prev).stored

\* C22: in a run that follows a run whose payload the destination stored,
\* over the same completeness rows, the payload built is empty and no data
\* value is posted.
C22_RerunBuildsEmptyPayload ==
    (PreviousPushStored /\ sync_payload # {})
        => TheValue(sync_payload) = <<>> /\ sync_sent = <<>>

\* A run has ended with nothing to send, after a run that sent data values
\* the destination held with another value or not at all.
C22_Witness ==
    /\ PreviousPushStored /\ TheValue(sync_prev).payload # <<>>
    /\ syncpc = "done" /\ sync_payload = {<<>>}
    /\ \E r \in Range(redop_file.rows) : r.lastUpdated = 0

\* df holds one record for each natural key of src, a record of src with the
\* greatest last_updated of its key.
IsDedupOf(df, src) ==
    /\ KeysOf(df) = KeysOf(src)
    /\ \A i, j \in DOMAIN df : NaturalKey(df[i]) = NaturalKey(df[j]) => i = j
    /\ \A r \in Range(df) :
          /\ r \in Range(src)
          /\ \A c \in Range(src) :
                NaturalKey(c) = NaturalKey(r) => c.last_updated <= r.last_updated

InitNb == NbInit /\ MergeIdle /\ ChunkIdle /\ ExtractIdle /\ PayloadIdle /\ PostIdle /\ PushIdle /\ SntIdle /\ EnrichIdle /\ SyncIdle /\ CuIdle
NextNb ==
    \/ NbTick
       /\ UNCHANGED <<mergeVars, chunkVars, extractVars, payloadVars, postVars, pushVars, sntVars, enrichVars, syncVars, cuVars>>
    \/ \E nb_name \in {"SNT_1_outliers_detection", "SNT_2_data_imputation"},
          out_nb_path \in {"snt_data_cleaning/papermill-outputs", "snt_data_outliers/papermill-outputs"} :
          RunNotebook(nb_name, out_nb_path)
          /\ UNCHANGED <<mergeVars, chunkVars, extractVars, payloadVars, postVars, pushVars, sntVars, enrichVars, syncVars, cuVars>>
SpecNb == InitNb /\ [][NextNb]_vars

\* C24: two executions of run_notebook with the same notebook name and output
\* directory have different output notebook paths.
C24_OutputPathsAreUnique ==
    \A i, j \in DOMAIN nb_outputs :
        (/\ i # j
         /\ nb_outputs[i].nb_name = nb_outputs[j].nb_name
         /\ nb_outputs[i].out_nb_path = nb_outputs[j].out_nb_path)
            => nb_outputs[i].out_nb_full_path # nb_outputs[j].out_nb_full_path

(***************************************************************************)
(* The merge of a prior file with newly fetched rows.                      *)
(***************************************************************************)
InitCu == CuInit /\ MergeIdle /\ ChunkIdle /\ ExtractIdle /\ PayloadIdle /\ PostIdle /\ PushIdle /\ SntIdle /\ EnrichIdle /\ SyncIdle /\ NbIdle
NextCu == ConcatUnique /\ UNCHANGED <<mergeVars, chunkVars, extractVars, payloadVars, postVars, pushVars, sntVars, enrichVars, syncVars, nbVars>>
SpecCu == InitCu /\ [][NextCu]_vars

\* The keys of the rows of df.
SubsetKeys(df, subset) == {SubsetKey(r, subset) : r \in Range(df)}

\* The last row of df with this key.
LastWithKey(df, subset, key) ==
    df[CHOOSE i \in DOMAIN df :
          /\ SubsetKey(df[i], subset) = key
          /\ \A j \in DOMAIN df : SubsetKey(df[j], subset) = key => j <= i]

\* C25: with a prior file, the merge of the file with the fetched rows has
\* one row for each key of the file or of the fetched rows and no other row;
\* for a key of the fetched rows it is the (last) fetched row of that key,
\* also when the file has the key; otherwise it is the row of the file.
C25_MergeKeepsNewRowPerKey ==
    (cupc = "done" /\ cu_file.exists) =>
        /\ SubsetKeys(cu_df, cu_subset) = SubsetKeys(cu_file.rows \o cu_new, cu_subset)
        /\ \A i, j \in DOMAIN cu_df :
              SubsetKey(cu_df[i], cu_subset) = SubsetKey(cu_df[j], cu_subset) => i = j
        /\ \A r \in Range(cu_df) :
              LET key == SubsetKey(r, cu_subset)
              IN  IF key \in SubsetKeys(cu_new, cu_subset)
                  THEN r = LastWithKey(cu_new, cu_subset, key)
                  ELSE r = LastWithKey(cu_file.rows, cu_subset, key)

\* The file and the fetched rows hold one key with different values, the
\* file holds another key as well, and the merge keeps the fetched value.
C25_Witness ==
    /\ cupc = "done" /\ cu_file.exists /\ Len(cu_file.rows) = 2 /\ Len(cu_df) = 2
    /\ \E i \in DOMAIN cu_file.rows :
          /\ SubsetKey(cu_file.rows[i], cu_subset) = SubsetKey(cu_new[1], cu_subset)
          /\ cu_file.rows[i].value # cu_new[1].value
          /\ cu_new[1] \in Range(cu_df)
          /\ cu_file.rows[i] \notin Range(cu_df)

\* C26: in bulletin_generate, with a notebook that is not a file,
\* pm.execute_notebook is not called, no file output is registered, the run
\* does not complete, and when it has ended the error has been logged.
C26_MissingNotebookNotExecuted ==
    (snt_pipeline = "bulletin_generate" /\ ~senv.notebook_file)
        => /\ executed = <<>> /\ file_outputs = <<>> /\ spc # "done"
           /\ spc = "failed" => error_log # <<>>

\* C27: in snt-risk-stratification, the prevalence/mortality notebook is
\* executed only after an execution of the incidence notebook that ended
\* without error.
C27_PrevalenceOnlyAfterIncidence ==
    snt_pipeline = "snt-risk-stratification" =>
        \A i \in DOMAIN executed :
            executed[i].nb = "SNT_2_Prevalence_Mortality" =>
                \E j \in 1..(i - 1) :
                    executed[j].nb = "SNT_1_Incidence" /\ executed[j].error = {}

\* run_imputation of snt-data-cleaning was called with an imputation_process
\* that is neither None nor one of the choices, and has ended.
InvalidImputationRan ==
    /\ snt_pipeline = "snt-data-cleaning"
    /\ sparams.imputation_process # {}
    /\ ~(sparams.imputation_process \subseteq ImputationChoices)
    /\ stodo = <<"run_imputation">> /\ spc = "failed"

\* C28: run_imputation called with an imputation_process that is neither
\* None nor one of the three choices fails with the ValueError "Imputation
\* option not valid!", without executing the imputation notebook.
C28_InvalidImputationRaisesValueError ==
    InvalidImputationRan =>
        /\ serror = {"ValueError: Imputation option not valid!"}
        /\ \A i \in DOMAIN executed : executed[i].nb # "SNT_2_data_imputation"

\* C29: after a successful run, the high-water mark the next run reads from
\* the persisted file (get_last_updated of dst_file, which nothing but write
\* changes) is defined and not smaller than the mark this run read at its
\* start.
C29_HighWaterMarkNeverDecreases ==
    xpc = "done" =>
        /\ ~GetLastUpdatedRaises(file)
        /\ get_last_updated(file) # {}
        /\ \A t \in last_updated : \A u \in get_last_updated(file) : u >= t

\* C30: dst_file is as the run found it until the run's write step has
\* ended; a run that failed in filter_data_elements, extract or enrich has
\* left it unchanged.
C30_FileOverwrittenOnlyByWrite ==
    xpc \in {"filter", "extract", "fetch", "enrich", "write", "failed"} => file = fileAtStart

\* A run with a file in place failed in enrich, after the fetch and the merge.
C30_Witness == xpc = "failed" /\ file.exists /\ frame # <<>> /\ xdf # <<>>

====
